---- MODULE Spec2Model ----
(***************************************************************************)
(* The dbt-to-explore translator of                                        *)
(* packages/frontend/src/hooks/usePieChartConfig.ts (lines 432-1021):      *)
(* convertDimension, convertDbtMetricToLightdashMetric, convertTable,      *)
(* generateTableLineage, modelCanUseMetric, convertExplores and            *)
(* attachTypesToModels; and the group fields of the usePieChartConfig hook *)
(* of the same file (lines 80-214).                                        *)
(*                                                                         *)
(* Text.  A JavaScript string is a sequence of tokens; a token is a TLA+   *)
(* string that no other token sequence spells, so two texts are equal as   *)
(* JavaScript strings exactly when they are equal as sequences, and        *)
(* string concatenation is \o.  The empty sequence stands for every falsy  *)
(* optional text (undefined, null, ''), which the source only ever tests   *)
(* with || and !; null that is tested with !== has its own value Null.     *)
(*                                                                         *)
(* Objects.  A JavaScript object used as a map is a sequence of entries    *)
(* [k, v] in insertion order; a spread that sets an existing key replaces  *)
(* the value in place, a new key is appended.                              *)
(*                                                                         *)
(* Display hints that the source copies verbatim from its input            *)
(* (description, format, round, compact, urls, groupLabel) carry no        *)
(* behaviour and are left out of the records.                              *)
(***************************************************************************)
EXTENDS Integers, Sequences, FiniteSets, TLC

VARIABLES
    models,        \* DbtModelNode[]: the input of the running operation
    metrics,       \* DbtMetric[]
    adapterType,   \* SupportedDbtAdapter
    loadSources,   \* boolean
    pc,            \* position in the running operation
    idx,           \* number of models the current loop has consumed
    tableLineage,  \* convertExplores: translateDbtModelsToTableLineage(models)
    tables,        \* convertExplores: accTables of the reduce
    exploreErrors, \* convertExplores: accErrors of the reduce
    explores,      \* convertExplores: the mapped validModels so far
    outcome,       \* what the operation returned or threw; Pending before
    warehouseCatalog,           \* attachTypesToModels: the catalog
    throwOnMissingCatalogEntry, \* attachTypesToModels: flag
    caseSensitiveMatching,      \* attachTypesToModels: flag
    attached,      \* attachTypesToModels: models mapped so far
    keptMetrics,   \* metrics.filter of line 838: the metrics kept so far
    dimensionIds,    \* usePieChartConfig: dimensions.map(fieldId)
    isLoading,       \* usePieChartConfig: !explore || !resultsData
    groupFieldIds,   \* usePieChartConfig: the state of useState, line 89
    effectDue,       \* usePieChartConfig: the effect of line 160 has to run
    calls            \* usePieChartConfig: calls of the three group handlers

translatorVars ==
    <<models, metrics, adapterType, loadSources, pc, idx, tableLineage,
      tables, exploreErrors, explores, outcome, warehouseCatalog,
      throwOnMissingCatalogEntry, caseSensitiveMatching, attached, keptMetrics>>

hookVars == <<dimensionIds, isLoading, groupFieldIds, effectDue, calls>>

vars == <<translatorVars, hookVars>>

-----------------------------------------------------------------------------
(* Text and object helpers *)

Undefined == << >>

Null == <<"null">>

\* The hook is not mounted while the translator runs.
HookUnmounted ==
    /\ dimensionIds = << >>
    /\ isLoading = TRUE
    /\ groupFieldIds = << >>
    /\ effectDue = FALSE
    /\ calls = 0

Truthy(s) == s # Undefined /\ s # Null

Or(a, b) == IF Truthy(a) THEN a ELSE b

RECURSIVE Join(_, _)
Join(list, sep) ==
    IF list = << >> THEN << >>
    ELSE IF Len(list) = 1 THEN list[1]
    ELSE list[1] \o sep \o Join(Tail(list), sep)

Range(s) == {s[k] : k \in 1..Len(s)}

Keys(m) == [k \in 1..Len(m) |-> m[k].k]

Values(m) == [k \in 1..Len(m) |-> m[k].v]

Has(m, key) == \E k \in 1..Len(m) : m[k].k = key

Get(m, key) == m[CHOOSE k \in 1..Len(m) : m[k].k = key].v

Put(m, key, val) ==
    IF Has(m, key)
    THEN [k \in 1..Len(m) |-> IF m[k].k = key THEN [k |-> key, v |-> val] ELSE m[k]]
    ELSE Append(m, [k |-> key, v |-> val])

RECURSIVE Spread(_, _)
Spread(m, more) ==
    IF more = << >> THEN m
    ELSE Spread(Put(m, more[1].k, more[1].v), Tail(more))

Ok(v) == [ok |-> TRUE, value |-> v]

Throw(n, msg) == [ok |-> FALSE, error |-> [name |-> n, message |-> msg]]

\* Sequencing of statements that may throw: the rest runs only on a value.
Then(r, Rest(_)) == IF r.ok THEN Rest(r.value) ELSE r

-----------------------------------------------------------------------------
(* Enums and collaborators imported from ../types and ../utils *)

DimensionType == {<<"string">>, <<"number">>, <<"timestamp">>, <<"date">>, <<"boolean">>}

SupportedDbtAdapter ==
    {"bigquery", "databricks", "snowflake", "redshift", "postgres", "trino"}

TimeFrames ==
    {<<"RAW">>, <<"DAY">>, <<"WEEK">>, <<"MONTH">>, <<"QUARTER">>, <<"YEAR">>}

LowerToken(t) ==
    CASE t = "RAW" -> "raw"
      [] t = "DAY" -> "day"
      [] t = "WEEK" -> "week"
      [] t = "MONTH" -> "month"
      [] t = "QUARTER" -> "quarter"
      [] t = "YEAR" -> "year"
      [] t = "Raw" -> "raw"
      [] t = "Day" -> "day"
      [] t = "Week" -> "week"
      [] t = "Month" -> "month"
      [] t = "Quarter" -> "quarter"
      [] t = "Year" -> "year"
      [] t = "DB" -> "db"
      [] t = "Public" -> "public"
      [] t = "Users" -> "users"
      [] t = "Id" -> "id"
      [] t = "CREATED" -> "created"
      [] OTHER -> t

toLowerCase(s) == [k \in 1..Len(s) |-> LowerToken(s[k])]

defaultSql(columnName) == <<"$", "{", "TABLE", "}", ".">> \o columnName

friendlyName(text) == <<"friendlyName(">> \o text \o <<")">>

getDefaultTimeFrames(type) ==
    IF type = <<"timestamp">>
    THEN << <<"RAW">>, <<"DAY">>, <<"WEEK">>, <<"MONTH">>, <<"QUARTER">>, <<"YEAR">> >>
    ELSE << <<"DAY">>, <<"WEEK">>, <<"MONTH">>, <<"QUARTER">>, <<"YEAR">> >>

validateTimeFrames(values) ==
    IF \A k \in 1..Len(values) : values[k] \in TimeFrames
    THEN Ok(values)
    ELSE Throw("ParseError",
               <<"Invalid time interval: ">>
                   \o values[CHOOSE k \in 1..Len(values) :
                                 /\ values[k] \notin TimeFrames
                                 /\ \A j \in 1..(k - 1) : values[j] \in TimeFrames])

timeFrameGetSql(adapter, timeInterval, sql, type) ==
    IF timeInterval = <<"RAW">> THEN sql
    ELSE <<"DATE_TRUNC('">> \o timeInterval \o <<"', ">> \o sql \o <<")">>

timeFrameGetLabel(timeInterval) ==
    CASE timeInterval = <<"RAW">> -> <<"Raw">>
      [] timeInterval = <<"DAY">> -> <<"Day">>
      [] timeInterval = <<"WEEK">> -> <<"Week">>
      [] timeInterval = <<"MONTH">> -> <<"Month">>
      [] timeInterval = <<"QUARTER">> -> <<"Quarter">>
      [] OTHER -> <<"Year">>

timeFrameGetDimensionType(timeInterval, type) ==
    IF timeInterval = <<"RAW">> THEN type ELSE <<"date">>

-----------------------------------------------------------------------------
(* convertTimezone and convertDimension *)

\* Faulty variant of convertTimezone: the SQL as it is for every adapter.
convertTimezonePassThrough(timestampSql, default_source_tz, target_tz, adapter) ==
    IF adapter \in SupportedDbtAdapter THEN Ok(timestampSql)
    ELSE Throw("ParseError", <<"Cannot recognise warehouse ", adapter>>)

convertTimezone(timestampSql, default_source_tz, target_tz, adapter) ==
    CASE adapter = "bigquery" -> Ok(timestampSql)
      [] adapter = "snowflake" ->
            Ok(<<"TO_TIMESTAMP_NTZ(CONVERT_TIMEZONE('UTC', ">> \o timestampSql \o <<"))">>)
      [] adapter = "redshift" -> Ok(timestampSql)
      [] adapter = "postgres" -> Ok(timestampSql)
      [] adapter = "databricks" -> Ok(timestampSql)
      [] adapter = "trino" -> Ok(timestampSql)
      [] OTHER -> Throw("ParseError", <<"Cannot recognise warehouse ", adapter>>)

\* Faulty variant of ResolvedType: the catalog type before the override.
ResolvedTypeCatalogFirst(column) ==
    Or(column.data_type, Or(column.dimension.type, <<"string">>))

\* The type a column resolves to: override, else catalog type, else STRING.
ResolvedType(column) == Or(column.dimension.type, Or(column.data_type, <<"string">>))

convertDimension(targetWarehouse, model, tableLabel, column, timeInterval) ==
    LET type == ResolvedType(column)
        baseName == Or(column.dimension.name, column.name)
        baseSql == Or(column.dimension.sql, defaultSql(column.name))
        baseLabel == Or(column.dimension.label, friendlyName(baseName))
        zoned == IF type = <<"timestamp">>
                 THEN convertTimezone(baseSql, <<"UTC">>, <<"UTC">>, targetWarehouse)
                 ELSE Ok(baseSql)
    IN  IF type \notin DimensionType
        THEN Throw("MissingCatalogEntryError",
                   <<"Could not recognise type \"">> \o type
                       \o <<"\" for dimension \"">> \o column.name
                       \o <<"\" in dbt model \"">> \o model.name
                       \o <<"\". Valid types are: ">>
                       \o <<"string, number, timestamp, date, boolean">>)
        ELSE IF ~zoned.ok THEN zoned
        ELSE IF Truthy(timeInterval)
        THEN Ok([fieldType |-> "dimension",
                 name |-> column.name \o <<"_">> \o toLowerCase(timeInterval),
                 label |-> baseLabel \o <<" ">>
                               \o toLowerCase(timeFrameGetLabel(timeInterval)),
                 sql |-> timeFrameGetSql(targetWarehouse, timeInterval, zoned.value, type),
                 table |-> model.name,
                 tableLabel |-> tableLabel,
                 type |-> timeFrameGetDimensionType(timeInterval, type),
                 group |-> column.name,
                 timeInterval |-> timeInterval,
                 hidden |-> column.dimension.hidden])
        ELSE Ok([fieldType |-> "dimension",
                 name |-> baseName,
                 label |-> baseLabel,
                 sql |-> zoned.value,
                 table |-> model.name,
                 tableLabel |-> tableLabel,
                 type |-> type,
                 group |-> Undefined,
                 timeInterval |-> Undefined,
                 hidden |-> column.dimension.hidden])

-----------------------------------------------------------------------------
(* buildModelGraph (../types/dbt) and generateTableLineage *)

\* Sequence without repeated elements, first occurrences kept.
RECURSIVE Dedup(_)
Dedup(s) ==
    IF s = << >> THEN << >>
    ELSE LET rest == Dedup(SubSeq(s, 1, Len(s) - 1))
         IN  IF \E k \in 1..Len(rest) : rest[k] = s[Len(s)]
             THEN rest ELSE Append(rest, s[Len(s)])

RECURSIVE Flatten(_)
Flatten(ss) == IF ss = << >> THEN << >> ELSE ss[1] \o Flatten(Tail(ss))

\* A unique_id is <type>.<project>.<name>; the node carries its type and name.
NodeData(nodeId) == [type |-> <<nodeId[1]>>, name |-> <<nodeId[Len(nodeId)]>>]

\* Nodes in insertion order: each model, then the nodes it depends on.
buildModelGraph(allModels) ==
    [nodes |-> Dedup(Flatten([k \in 1..Len(allModels) |->
                        <<allModels[k].unique_id>> \o allModels[k].depends_on])),
     edges |-> UNION {{<<allModels[k].unique_id, allModels[k].depends_on[j]>> :
                          j \in 1..Len(allModels[k].depends_on)} :
                      k \in 1..Len(allModels)}]

RECURSIVE ReachFrom(_, _)
ReachFrom(edgeSet, frontier) ==
    LET next == frontier \cup {e[2] : e \in {d \in edgeSet : d[1] \in frontier}}
    IN  IF next = frontier THEN frontier ELSE ReachFrom(edgeSet, next)

Reverse(edgeSet) == {<<e[2], e[1]>> : e \in edgeSet}

\* Transitive dependencies (upstream) of a node, the node itself excluded.
dependenciesOf(depGraph, nodeId) ==
    LET reached == ReachFrom(depGraph.edges, {nodeId}) \ {nodeId}
        Hit(n) == n \in reached
    IN  SelectSeq(depGraph.nodes, Hit)

\* Transitive dependants (downstream) of a node, the node itself excluded.
dependantsOf(depGraph, nodeId) ==
    LET reached == ReachFrom(Reverse(depGraph.edges), {nodeId}) \ {nodeId}
        Hit(n) == n \in reached
    IN  SelectSeq(depGraph.nodes, Hit)

directDependenciesOf(depGraph, nodeId) ==
    LET Hit(n) == <<nodeId, n>> \in depGraph.edges
    IN  SelectSeq(depGraph.nodes, Hit)

RECURSIVE LineageReduce(_, _, _)
LineageReduce(prev, ids, depGraph) ==
    IF ids = << >> THEN prev
    ELSE LET direct == directDependenciesOf(depGraph, ids[1])
         IN  LineageReduce(
                 Put(prev, NodeData(ids[1]).name,
                     [k \in 1..Len(direct) |-> NodeData(direct[k])]),
                 Tail(ids), depGraph)

RECURSIVE LineageReduceOwn(_, _, _, _)
LineageReduceOwn(prev, ids, depGraph, own) ==
    IF ids = << >> THEN prev
    ELSE LineageReduceOwn(Put(prev, NodeData(ids[1]).name, own), Tail(ids), depGraph, own)

\* Faulty variant of generateTableLineage: every member of the family is given the
\* direct dependencies of the queried model.
generateTableLineageOwnDependencies(model, depGraph) ==
    LineageReduceOwn(
        << >>,
        dependantsOf(depGraph, model.unique_id)
            \o dependenciesOf(depGraph, model.unique_id) \o <<model.unique_id>>,
        depGraph,
        [k \in 1..Len(directDependenciesOf(depGraph, model.unique_id)) |->
            NodeData(directDependenciesOf(depGraph, model.unique_id)[k])])

generateTableLineage(model, depGraph) ==
    LET modelFamilyIds == dependantsOf(depGraph, model.unique_id)
                              \o dependenciesOf(depGraph, model.unique_id)
                              \o <<model.unique_id>>
    IN  LineageReduce(<< >>, modelFamilyIds, depGraph)

RECURSIVE TableLineageReduce(_, _, _)
TableLineageReduce(previousValue, rest, graph) ==
    IF rest = << >> THEN previousValue
    ELSE TableLineageReduce(
             Put(previousValue, rest[1].name,
                 [lineageGraph |-> generateTableLineage(rest[1], graph)]),
             Tail(rest), graph)

translateDbtModelsToTableLineage(allModels) ==
    TableLineageReduce(<< >>, allModels, buildModelGraph(allModels))

-----------------------------------------------------------------------------
(* Metric conversion *)

MetricType ==
    {<<"AVERAGE">>, <<"COUNT">>, <<"COUNT_DISTINCT">>, <<"SUM">>, <<"MIN">>,
     <<"MAX">>, <<"NUMBER">>}

parseMetricType(metricType) ==
    CASE metricType = <<"average">> -> Ok(<<"AVERAGE">>)
      [] metricType = <<"count">> -> Ok(<<"COUNT">>)
      [] metricType = <<"count_distinct">> -> Ok(<<"COUNT_DISTINCT">>)
      [] metricType = <<"sum">> -> Ok(<<"SUM">>)
      [] metricType = <<"min">> -> Ok(<<"MIN">>)
      [] metricType = <<"max">> -> Ok(<<"MAX">>)
      [] metricType = <<"number">> -> Ok(<<"NUMBER">>)
      [] OTHER -> Throw("ParseError", <<"Cannot parse metric type ">> \o metricType)

\* Column-embedded metric (meta.metrics) of a dimension.
convertMetric(modelName, dimensionName, dimensionSql, name, metric, tableLabel) ==
    [fieldType |-> "metric",
     type |-> metric.type,
     isAutoGenerated |-> FALSE,
     name |-> name,
     label |-> Or(metric.label, friendlyName(name)),
     table |-> modelName,
     tableLabel |-> tableLabel,
     sql |-> Or(metric.sql, dimensionSql),
     hidden |-> metric.hidden]

StartsWith(text, pat) ==
    Len(pat) <= Len(text) /\ SubSeq(text, 1, Len(pat)) = pat

\* String.prototype.replace with new RegExp(pat, 'g') for a pattern of word
\* characters: every non-overlapping occurrence, scanning left to right; the
\* empty pattern matches before every token and at the end.
RECURSIVE ReplaceAll(_, _, _)
ReplaceAll(text, pat, rep) ==
    IF pat = << >>
    THEN IF text = << >> THEN rep
         ELSE rep \o <<text[1]>> \o ReplaceAll(Tail(text), pat, rep)
    ELSE IF text = << >> THEN << >>
    ELSE IF StartsWith(text, pat)
    THEN rep \o ReplaceAll(SubSeq(text, Len(pat) + 1, Len(text)), pat, rep)
    ELSE <<text[1]>> \o ReplaceAll(Tail(text), pat, rep)

Placeholder(ref) == <<"$", "{">> \o ref \o <<"}">>

RECURSIVE ReplaceRefs(_, _)
ReplaceRefs(sql, referencedMetrics) ==
    IF referencedMetrics = << >> THEN sql
    ELSE ReplaceRefs(ReplaceAll(sql, referencedMetrics[1],
                                Placeholder(referencedMetrics[1])),
                     Tail(referencedMetrics))

\* (metric.metrics || []).map((m) => m[0])
ReferencedMetrics(metric) ==
    [k \in 1..Len(metric.metrics) |->
        IF metric.metrics[k] = << >> THEN Undefined ELSE metric.metrics[k][1]]

WordTokens ==
    {"a", "b", "c", "x", "y", "_", "1", "amount", "created", "CREATED", "id",
     "DAY", "day", "total", "net", "revenue", "cost"}

\* Faulty variant of isSingleColumnName: the pattern without its anchors.
isSingleColumnNameUnanchored(text) ==
    \E k \in 1..Len(text) : text[k] \in WordTokens

\* /^[a-zA-Z0-9_]+$/
isSingleColumnName(text) ==
    text # << >> /\ \A k \in 1..Len(text) : text[k] \in WordTokens

FilterSql(filters) ==
    Join([k \in 1..Len(filters) |->
             <<"(", "$", "{", "TABLE", "}", ".">> \o filters[k].field \o <<" ">>
                 \o filters[k].operator \o <<" ">> \o filters[k].value \o <<")">>],
         <<" AND ">>)

convertDbtMetricToLightdashMetric(metric, tableName, tableLabel) ==
    LET parsed == parseMetricType(metric.calculation_method)
        core ==
            IF metric.calculation_method = <<"expression">>
            THEN IF ~Truthy(metric.expression)
                 THEN Throw("ParseError",
                            <<"dbt expression metric \"">> \o metric.name
                                \o <<"\" must have the sql field set">>)
                 ELSE Ok([type |-> <<"NUMBER">>,
                          sql |-> ReplaceRefs(metric.expression,
                                              ReferencedMetrics(metric))])
            ELSE IF ~parsed.ok
                 THEN Throw("ParseError",
                            <<"Cannot parse metric '">> \o metric.unique_id
                                \o <<": type ">> \o metric.calculation_method
                                \o <<" is not a valid Lightdash metric type">>)
                 ELSE Ok([type |-> parsed.value,
                          sql |-> IF Truthy(metric.expression)
                                  THEN IF isSingleColumnName(metric.expression)
                                       THEN defaultSql(metric.expression)
                                       ELSE metric.expression
                                  ELSE defaultSql(metric.name)])
    IN  IF ~core.ok THEN core
        ELSE Ok([fieldType |-> "metric",
                 type |-> core.value.type,
                 isAutoGenerated |-> FALSE,
                 name |-> metric.name,
                 label |-> Or(metric.label, friendlyName(metric.name)),
                 table |-> tableName,
                 tableLabel |-> tableLabel,
                 sql |-> IF Len(metric.filters) > 0
                         THEN <<"CASE WHEN ">> \o FilterSql(metric.filters)
                                  \o <<" THEN ">> \o core.value.sql
                                  \o <<" ELSE NULL END">>
                         ELSE core.value.sql,
                 hidden |-> metric.hidden])

-----------------------------------------------------------------------------
(* modelCanUseMetric *)

FindMetric(metricName, allMetrics) ==
    IF \E k \in 1..Len(allMetrics) : allMetrics[k].name = metricName
    THEN <<allMetrics[CHOOSE k \in 1..Len(allMetrics) :
                          /\ allMetrics[k].name = metricName
                          /\ \A j \in 1..(k - 1) : allMetrics[j].name # metricName]>>
    ELSE << >>

\* metric.refs?.[0]?.[0]
ModelRef(metric) ==
    IF metric.refs = << >> THEN Undefined
    ELSE IF metric.refs[1] = << >> THEN Undefined
    ELSE metric.refs[1][1]

\* The recursion of modelCanUseMetric.  pending holds the metric names of the
\* calls on the stack: a call for a name already pending repeats that call, so
\* the recursion never ends and the JavaScript engine throws RangeError.
RECURSIVE CanUse(_, _, _, _)
RECURSIVE CanUseEvery(_, _, _, _)
\* Faulty variant of CanUse: a metric met again on the way counts as not usable.
CanUseVisitedOnce(metricName, modelName, allMetrics, pending) ==
    LET found == FindMetric(metricName, allMetrics)
    IN  IF metricName \in pending THEN Ok(FALSE)
        ELSE IF found = << >> THEN Ok(FALSE)
        ELSE IF ModelRef(found[1]) = modelName THEN Ok(TRUE)
        ELSE IF found[1].calculation_method = <<"expression">>
        THEN CanUseEvery(ReferencedMetrics(found[1]), modelName, allMetrics,
                         pending \cup {metricName})
        ELSE Ok(FALSE)

\* Faulty variant of CanUse: the callback of every asks again for the metric
\* itself, not for the metric it references.
CanUseItself(metricName, modelName, allMetrics, pending) ==
    LET found == FindMetric(metricName, allMetrics)
    IN  IF metricName \in pending
        THEN Throw("RangeError", <<"Maximum call stack size exceeded">>)
        ELSE IF found = << >> THEN Ok(FALSE)
        ELSE IF ModelRef(found[1]) = modelName THEN Ok(TRUE)
        ELSE IF found[1].calculation_method = <<"expression">>
        THEN CanUseEvery([k \in 1..Len(found[1].metrics) |-> metricName], modelName,
                         allMetrics, pending \cup {metricName})
        ELSE Ok(FALSE)

CanUse(metricName, modelName, allMetrics, pending) ==
    LET found == FindMetric(metricName, allMetrics)
    IN  IF metricName \in pending
        THEN Throw("RangeError", <<"Maximum call stack size exceeded">>)
        ELSE IF found = << >> THEN Ok(FALSE)
        ELSE IF ModelRef(found[1]) = modelName THEN Ok(TRUE)
        ELSE IF found[1].calculation_method = <<"expression">>
        THEN CanUseEvery(ReferencedMetrics(found[1]), modelName, allMetrics,
                         pending \cup {metricName})
        ELSE Ok(FALSE)

\* Faulty variant of CanUseEvery: Array.prototype.some, false on an empty list.
CanUseSome(refs, modelName, allMetrics, pending) ==
    IF refs = << >> THEN Ok(FALSE)
    ELSE LET first == CanUse(refs[1], modelName, allMetrics, pending)
         IN  IF ~first.ok THEN first
             ELSE IF first.value THEN Ok(TRUE)
             ELSE CanUseEvery(Tail(refs), modelName, allMetrics, pending)

\* Array.prototype.every: in order, stopping at the first false.
CanUseEvery(refs, modelName, allMetrics, pending) ==
    IF refs = << >> THEN Ok(TRUE)
    ELSE LET first == CanUse(refs[1], modelName, allMetrics, pending)
         IN  IF ~first.ok THEN first
             ELSE IF ~first.value THEN Ok(FALSE)
             ELSE CanUseEvery(Tail(refs), modelName, allMetrics, pending)

\* Faulty variant of modelCanUseMetric: an expression metric is usable by every model.
modelCanUseMetricAnyExpression(metricName, modelName, allMetrics) ==
    LET found == FindMetric(metricName, allMetrics)
    IN  IF found = << >> THEN Ok(FALSE)
        ELSE IF ModelRef(found[1]) = modelName THEN Ok(TRUE)
        ELSE Ok(found[1].calculation_method = <<"expression">>)

modelCanUseMetric(metricName, modelName, allMetrics) ==
    CanUse(metricName, modelName, allMetrics, {})

-----------------------------------------------------------------------------
(* convertTable *)

\* model.config?.meta || model.meta; config_meta is << >> or <<meta>>.
Meta(model) == IF model.config_meta # << >> THEN model.config_meta[1] ELSE model.meta

TableLabel(model) == Or(Meta(model).label, friendlyName(model.name))

\* Truthiness of column.meta.dimension?.time_intervals.
TimeIntervalsSet(column) ==
    \/ column.dimension.time_intervals.kind = "array"
    \/ /\ column.dimension.time_intervals.kind = "string"
       /\ column.dimension.time_intervals.str # << >>

\* Faulty variant of ExpandsTimeIntervals: the 'OFF' sentinel is not looked at.
ExpandsTimeIntervalsIgnoringOff(dimension, column) ==
    dimension.type \in {<<"date">>, <<"timestamp">>}

\* The condition of lines 690-697.
ExpandsTimeIntervals(dimension, column) ==
    /\ dimension.type \in {<<"date">>, <<"timestamp">>}
    /\ \/ /\ TimeIntervalsSet(column)
          /\ ~(/\ column.dimension.time_intervals.kind = "string"
               /\ column.dimension.time_intervals.str = <<"OFF">>)
       \/ ~TimeIntervalsSet(column)

Intervals(dimension, column) ==
    IF TimeIntervalsSet(column) /\ column.dimension.time_intervals.kind = "array"
    THEN validateTimeFrames(column.dimension.time_intervals.list)
    ELSE Ok(getDefaultTimeFrames(dimension.type))

RECURSIVE ExtraDimensions(_, _, _, _, _, _)
ExtraDimensions(acc, intervals, adapter, model, tableLabel, column) ==
    IF intervals = << >> THEN Ok(acc)
    ELSE Then(convertDimension(adapter, model, tableLabel, column, intervals[1]),
              LAMBDA d :
                  ExtraDimensions(
                      Put(acc, column.name \o <<"_">> \o intervals[1], d),
                      Tail(intervals), adapter, model, tableLabel, column))

ColumnMetrics(model, tableLabel, column, dimension) ==
    [k \in 1..Len(column.metrics) |->
        [k |-> column.metrics[k].k,
         v |-> convertMetric(model.name, dimension.name, dimension.sql,
                             column.metrics[k].k, column.metrics[k].v, tableLabel)]]

\* Lines 688-724: the expansions of one column, { } when it has none.
ColumnExtraDimensions(adapter, model, tableLabel, column, dimension) ==
    IF ExpandsTimeIntervals(dimension, column)
    THEN Then(Intervals(dimension, column),
              LAMBDA intervals :
                  ExtraDimensions(<< >>, intervals, adapter, model, tableLabel, column))
    ELSE Ok(<< >>)

\* What one column adds: its entries of the dimension map, in the order
\* { [column.name]: dimension, ...extraDimensions }, and its metrics.
ConvertColumn(adapter, model, tableLabel, column) ==
    Then(convertDimension(adapter, model, tableLabel, column, Undefined),
         LAMBDA dimension :
             Then(ColumnExtraDimensions(adapter, model, tableLabel, column, dimension),
                  LAMBDA extraDimensions :
                      Ok([dimensions |->
                              Spread(<<[k |-> column.name, v |-> dimension]>>,
                                     extraDimensions),
                          metrics |->
                              ColumnMetrics(model, tableLabel, column, dimension)])))

RECURSIVE ColumnsReduce(_, _, _, _, _, _)
ColumnsReduce(prevDimensions, prevMetrics, columns, adapter, model, tableLabel) ==
    IF columns = << >>
    THEN Ok([dimensions |-> prevDimensions, metrics |-> prevMetrics])
    ELSE Then(ConvertColumn(adapter, model, tableLabel, columns[1]),
              LAMBDA c :
                  ColumnsReduce(Spread(prevDimensions, c.dimensions),
                                Spread(prevMetrics, c.metrics),
                                Tail(columns), adapter, model, tableLabel))

RECURSIVE ConvertedDbtMetrics(_, _, _, _)
ConvertedDbtMetrics(acc, dbtMetrics, tableName, tableLabel) ==
    IF dbtMetrics = << >> THEN Ok(acc)
    ELSE Then(convertDbtMetricToLightdashMetric(dbtMetrics[1], tableName, tableLabel),
              LAMBDA m :
                  ConvertedDbtMetrics(Put(acc, dbtMetrics[1].name, m),
                                      Tail(dbtMetrics), tableName, tableLabel))

\* Faulty variant of MergeMetrics: the spreads in the other order.
MergeMetricsNativeLast(convertedDbtMetrics, columnMetrics) ==
    Spread(columnMetrics, convertedDbtMetrics)

\* { ...convertedDbtMetrics, ...metrics }: model-level metric names take priority.
MergeMetrics(convertedDbtMetrics, columnMetrics) ==
    Spread(convertedDbtMetrics, columnMetrics)

\* Faulty variant of DuplicatedNames: find instead of filter, the first duplicate only.
DuplicatedNamesFirstOnly(allMetrics, dimensions) ==
    LET InDimensions(name) == Has(dimensions, name)
        found == SelectSeq(Keys(allMetrics), InDimensions)
    IN  IF found = << >> THEN << >> ELSE <<found[1]>>

DuplicatedNames(allMetrics, dimensions) ==
    LET InDimensions(name) == Has(dimensions, name)
    IN  SelectSeq(Keys(allMetrics), InDimensions)

\* Faulty variant of AssembleTable: the relation name is not looked at.
AssembleTableAnyRelation(model, tableLabel, dimensions, allMetrics, duplicatedNames) ==
    IF Len(duplicatedNames) > 0
    THEN Throw("ParseError",
               <<"Found a metric and a dimension with the same name:">>
                   \o <<" ">> \o Join(duplicatedNames, <<",">>))
    ELSE Ok([name |-> model.name,
             label |-> tableLabel,
             database |-> model.database,
             schema |-> model.schema,
             sqlTable |-> model.relation_name,
             dimensions |-> dimensions,
             metrics |-> allMetrics])

\* Lines 762-786: the checks after the merge, and the Table.
AssembleTable(model, tableLabel, dimensions, allMetrics, duplicatedNames) ==
    IF Len(duplicatedNames) > 0
    THEN Throw("ParseError",
               (IF Len(duplicatedNames) > 1
                THEN <<"Found multiple metrics and a dimensions with the same name:">>
                ELSE <<"Found a metric and a dimension with the same name:">>)
                   \o <<" ">> \o Join(duplicatedNames, <<",">>))
    ELSE IF ~Truthy(model.relation_name)
    THEN Throw("Error", <<"Model has no table relation">>)
    ELSE Ok([name |-> model.name,
             label |-> tableLabel,
             database |-> model.database,
             schema |-> model.schema,
             sqlTable |-> model.relation_name,
             dimensions |-> dimensions,
             metrics |-> allMetrics])

MergeAndAssemble(model, tableLabel, dimensions, allMetrics) ==
    AssembleTable(model, tableLabel, dimensions, allMetrics,
                  DuplicatedNames(allMetrics, dimensions))

\* Faulty variant of convertTable: the compiled flag is looked at last.
convertTableCompiledLast(adapter, model, dbtMetrics) ==
    Then(ColumnsReduce(<< >>, << >>, model.columns, adapter, model, TableLabel(model)),
         LAMBDA reduced :
             Then(ConvertedDbtMetrics(<< >>, dbtMetrics, model.name, TableLabel(model)),
                  LAMBDA convertedDbtMetrics :
                      Then(MergeAndAssemble(
                               model, TableLabel(model), reduced.dimensions,
                               MergeMetrics(convertedDbtMetrics, reduced.metrics)),
                           LAMBDA table :
                               IF ~model.compiled
                               THEN Throw("NonCompiledModelError",
                                          <<"Model has not been compiled by dbt">>)
                               ELSE Ok(table))))

convertTable(adapter, model, dbtMetrics) ==
    IF ~model.compiled
    THEN Throw("NonCompiledModelError", <<"Model has not been compiled by dbt">>)
    ELSE Then(ColumnsReduce(<< >>, << >>, model.columns, adapter, model,
                            TableLabel(model)),
              LAMBDA reduced :
                  Then(ConvertedDbtMetrics(<< >>, dbtMetrics, model.name,
                                           TableLabel(model)),
                       LAMBDA convertedDbtMetrics :
                           MergeAndAssemble(
                               model, TableLabel(model), reduced.dimensions,
                               MergeMetrics(convertedDbtMetrics, reduced.metrics))))

-----------------------------------------------------------------------------
(* compileExplore (./exploreCompiler) and the two loops of convertExplores *)

IsExploreError(record) == "errors" \in DOMAIN record

RECURSIVE TableLookup(_, _)
TableLookup(prev, rest) ==
    IF rest = << >> THEN prev
    ELSE TableLookup(Put(prev, rest[1].name, rest[1]), Tail(rest))

\* Join resolution: every joined table must be one of the converted tables.
compileExplore(name, label, tags, baseTable, joinedTables, tableMap, targetDatabase) ==
    IF \E k \in 1..Len(joinedTables) : ~Has(tableMap, joinedTables[k].table)
    THEN Throw("CompileError",
               <<"Failed to compile explore ">> \o name \o <<". Tried to join table ">>
                   \o joinedTables[CHOOSE k \in 1..Len(joinedTables) :
                          /\ ~Has(tableMap, joinedTables[k].table)
                          /\ \A j \in 1..(k - 1) : Has(tableMap, joinedTables[j].table)].table
                   \o <<" but it does not exist">>)
    ELSE Ok([name |-> name,
             label |-> label,
             tags |-> tags,
             baseTable |-> baseTable,
             joinedTables |-> joinedTables,
             tables |-> [k \in 1..(1 + Len(joinedTables)) |->
                            IF k = 1
                            THEN [k |-> baseTable, v |-> Get(tableMap, baseTable)]
                            ELSE [k |-> joinedTables[k - 1].table,
                                  v |-> Get(tableMap, joinedTables[k - 1].table)]],
             targetDatabase |-> targetDatabase])

\* metrics.filter((metric) => modelCanUseMetric(metric.name, model.name, metrics))
RECURSIVE FilterUsable(_, _, _)
FilterUsable(rest, modelName, allMetrics) ==
    IF rest = << >> THEN Ok(<< >>)
    ELSE Then(modelCanUseMetric(rest[1].name, modelName, allMetrics),
              LAMBDA use :
                  Then(FilterUsable(Tail(rest), modelName, allMetrics),
                       LAMBDA more :
                           Ok((IF use THEN <<rest[1]>> ELSE << >>) \o more)))

TableMetrics(model, allMetrics) == FilterUsable(allMetrics, model.name, allMetrics)

\* Lines 843-852: sources are not implemented; the lineage is attached.
WithLineage(model, withSources, lineage, table) ==
    IF withSources /\ model.patch_path # Null
    THEN Throw("Error", <<"Not Implemented">>)
    ELSE Ok([name |-> table.name,
             label |-> table.label,
             database |-> table.database,
             schema |-> table.schema,
             sqlTable |-> table.sqlTable,
             dimensions |-> table.dimensions,
             metrics |-> table.metrics,
             lineageGraph |-> Get(lineage, model.name).lineageGraph])

\* The try block of the reduce callback, lines 836-854.
TryConvertTable(model, adapter, withSources, allMetrics, lineage) ==
    Then(TableMetrics(model, allMetrics),
         LAMBDA tableMetrics :
             Then(convertTable(adapter, model, tableMetrics),
                  LAMBDA table : WithLineage(model, withSources, lineage, table)))

TableExploreError(model, e) ==
    [name |-> model.name,
     label |-> TableLabel(model),
     tags |-> model.tags,
     errors |-> <<[type |-> e.name,
                   message |-> Or(e.message,
                                  <<"Could not convert dbt model: \"">> \o model.name
                                      \o <<"\" in to a Lightdash explore">>)]>>]

\* Faulty variant of Accumulate: the new ExploreError takes the place of the
\* errors gathered so far.
AccumulateLastErrorOnly(acc, model, r) ==
    IF r.ok
    THEN Ok([tables |-> Append(acc.tables, r.value), errors |-> acc.errors])
    ELSE Ok([tables |-> acc.tables, errors |-> <<TableExploreError(model, r.error)>>])

\* The catch of the reduce callback: the accumulator after one model.
Accumulate(acc, model, r) ==
    IF r.ok
    THEN Ok([tables |-> Append(acc.tables, r.value), errors |-> acc.errors])
    ELSE Ok([tables |-> acc.tables,
             errors |-> Append(acc.errors, TableExploreError(model, r.error))])

\* Faulty variant of TablePhase: the callback without its try/catch.
TablePhaseNoCatch(acc, model, adapter, withSources, allMetrics, lineage) ==
    Then(TryConvertTable(model, adapter, withSources, allMetrics, lineage),
         LAMBDA table :
             Ok([tables |-> Append(acc.tables, table), errors |-> acc.errors]))

\* The reduce callback, lines 833-871.
TablePhase(acc, model, adapter, withSources, allMetrics, lineage) ==
    Accumulate(acc, model,
               TryConvertTable(model, adapter, withSources, allMetrics, lineage))

ValidModels(allModels, tableMap) ==
    LET Valid(model) == Has(tableMap, model.name)
    IN  SelectSeq(allModels, Valid)

JoinedTables(model) ==
    [k \in 1..Len(Meta(model).joins) |->
        [table |-> Meta(model).joins[k].join, sqlOn |-> Meta(model).joins[k].sql_on]]

\* The catch of the map callback: the record one valid model yields.
Recover(model, r) ==
    IF r.ok THEN Ok(r.value)
    ELSE Ok([name |-> model.name,
             label |-> TableLabel(model),
             errors |-> <<[type |-> r.error.name, message |-> r.error.message]>>])

\* The map callback, lines 881-903.
JoinPhase(model, tableMap, adapter) ==
    Recover(model,
            compileExplore(model.name, TableLabel(model), model.tags, model.name,
                           JoinedTables(model), tableMap, adapter))

\* Faulty variant of Concatenate: the errors of the table phase first.
ConcatenateErrorsFirst(exploreList, errorList) == errorList \o exploreList

\* return [...explores, ...exploreErrors]
Concatenate(exploreList, errorList) == exploreList \o errorList

-----------------------------------------------------------------------------
(* Inputs: a dbt project of a few models and metric sets *)

MaxModels == 2

NoIntervals == [kind |-> "undefined", str |-> << >>, list |-> << >>]

IntervalsString(text) == [kind |-> "string", str |-> text, list |-> << >>]

IntervalsArray(list) == [kind |-> "array", str |-> << >>, list |-> list]

NoDimension ==
    [type |-> Undefined, name |-> Undefined, sql |-> Undefined, label |-> Undefined,
     time_intervals |-> NoIntervals, hidden |-> FALSE]

Column(name, dataType) ==
    [name |-> name, data_type |-> dataType, dimension |-> NoDimension, metrics |-> << >>]

EmbeddedMetric(type) ==
    [type |-> type, label |-> Undefined, sql |-> Undefined, hidden |-> FALSE]

NoMeta == [label |-> Undefined, joins |-> << >>]

ModelId(project, name) == <<"model", ".", project, ".">> \o name

Model(project, name, columns) ==
    [unique_id |-> ModelId(project, name),
     name |-> name,
     database |-> <<"db">>,
     schema |-> <<"public">>,
     relation_name |-> <<"db", ".", "public", ".">> \o name,
     compiled |-> TRUE,
     columns |-> columns,
     config_meta |-> << >>,
     meta |-> NoMeta,
     tags |-> Undefined,
     patch_path |-> Null,
     depends_on |-> << >>]

\* orders: a number column with two embedded metrics, a date column with the
\* default intervals; joins users and depends on it.
Orders ==
    [Model("p", <<"orders">>,
           <<[Column(<<"amount">>, <<"number">>) EXCEPT
                 !.metrics = <<[k |-> <<"total">>, v |-> EmbeddedMetric(<<"SUM">>)],
                               [k |-> <<"revenue">>, v |-> EmbeddedMetric(<<"MAX">>)]>>],
             Column(<<"created">>, <<"date">>)>>)
     EXCEPT !.meta = [label |-> Undefined,
                      joins |-> <<[join |-> <<"users">>, sql_on |-> <<"on_users">>]>>],
            !.depends_on = <<ModelId("p", <<"users">>)>>,
            !.tags = << <<"core">> >>]

\* users: a column without catalog type and with a renamed dimension, a
\* timestamp column with an explicit interval list, a date column with the
\* intervals switched off; config.meta overrides meta; declared in a schema
\* file (patch_path).
Users ==
    [Model("p", <<"users">>,
           <<[Column(<<"id">>, Undefined) EXCEPT
                 !.dimension = [NoDimension EXCEPT !.name = <<"user", "_", "id">>]],
             [Column(<<"created">>, <<"timestamp">>) EXCEPT
                 !.dimension = [NoDimension EXCEPT
                     !.time_intervals = IntervalsArray(<< <<"DAY">>, <<"MONTH">> >>)]],
             [Column(<<"seen">>, <<"date">>) EXCEPT
                 !.dimension = [NoDimension EXCEPT
                     !.time_intervals = IntervalsString(<<"OFF">>)]]>>)
     EXCEPT !.config_meta = <<[label |-> <<"People">>, joins |-> << >>]>>,
            !.meta = [label |-> <<"Ignored">>, joins |-> << >>],
            !.patch_path = <<"models/schema.yml">>]

\* events: not compiled, and wrong in every other way as well.
Events ==
    [Model("p", <<"events">>,
           <<[Column(<<"amount">>, <<"geography">>) EXCEPT
                 !.metrics = <<[k |-> <<"amount">>, v |-> EmbeddedMetric(<<"SUM">>)]>>]>>)
     EXCEPT !.compiled = FALSE,
            !.relation_name = Null,
            !.depends_on = <<ModelId("p", <<"orders">>)>>]

\* payments: embedded metrics named like the columns of the model.
Payments ==
    Model("p", <<"payments">>,
          <<[Column(<<"amount">>, <<"number">>) EXCEPT
                !.metrics = <<[k |-> <<"paid">>, v |-> EmbeddedMetric(<<"MAX">>)],
                              [k |-> <<"created">>, v |-> EmbeddedMetric(<<"MIN">>)],
                              [k |-> <<"amount">>, v |-> EmbeddedMetric(<<"SUM">>)]>>],
            [Column(<<"created">>, <<"timestamp">>) EXCEPT
                !.dimension = [NoDimension EXCEPT
                    !.time_intervals = IntervalsString(<<"OFF">>)]]>>)

\* A second model named users, of another package, without a relation.
UsersNoRelation ==
    [Model("q", <<"users">>, <<Column(<<"id">>, <<"number">>)>>)
     EXCEPT !.relation_name = Null,
            !.depends_on = <<ModelId("p", <<"users">>)>>]

\* A second model named orders, of another package: an unknown column type
\* behind a valid override, and one without override.
OrdersBadType ==
    Model("q", <<"orders">>,
          <<[Column(<<"id">>, <<"geography">>) EXCEPT
                !.dimension = [NoDimension EXCEPT !.type = <<"string">>]],
            Column(<<"amount">>, <<"geography">>)>>)

\* sessions: a date column and a column spelled like one of its intervals;
\* joins a table that no model provides.
Sessions ==
    [Model("p", <<"sessions">>,
           <<Column(<<"created">>, <<"date">>),
             Column(<<"created", "_", "DAY">>, <<"number">>),
             [Column(<<"started">>, <<"timestamp">>) EXCEPT
                 !.dimension = [NoDimension EXCEPT
                     !.time_intervals = IntervalsArray(<< >>)]]>>)
     EXCEPT !.meta = [label |-> <<"Sessions">>,
                      joins |-> <<[join |-> <<"visits">>, sql_on |-> <<"on_visits">>]>>],
            !.depends_on = <<ModelId("p", <<"events">>)>>]

\* clicks: an explicit interval list with an unknown interval, and an empty
\* relation name.
Clicks ==
    [Model("p", <<"clicks">>,
           <<[Column(<<"created">>, <<"date">>) EXCEPT
                 !.dimension = [NoDimension EXCEPT
                     !.time_intervals = IntervalsArray(<< <<"DAY">>, <<"EON">> >>)]]>>)
     EXCEPT !.relation_name = Undefined]

ModelTemplates ==
    {Orders, Users, Events, Payments, UsersNoRelation, OrdersBadType, Sessions, Clicks}

DbtMetric(name, method, expression, refs) ==
    [unique_id |-> <<"metric", ".", "p", ".">> \o name,
     name |-> name,
     label |-> Undefined,
     calculation_method |-> method,
     expression |-> expression,
     metrics |-> << >>,
     refs |-> refs,
     filters |-> << >>,
     hidden |-> FALSE]

RefTo(name) == << <<name>> >>

Revenue == DbtMetric(<<"revenue">>, <<"sum">>, <<"amount">>, RefTo(<<"orders">>))

Cost == DbtMetric(<<"cost">>, <<"sum">>, <<"amount", " ", "*", " ", "1">>, RefTo(<<"orders">>))

Net ==
    [DbtMetric(<<"net">>, <<"expression">>, <<"revenue", " ", "-", " ", "cost">>, << >>)
     EXCEPT !.metrics = << <<<<"revenue">>>>, <<<<"cost">>>> >>]

Signups ==
    [DbtMetric(<<"signups">>, <<"count">>, Undefined, RefTo(<<"users">>))
     EXCEPT !.filters = <<[field |-> <<"id">>, operator |-> <<">">>, value |-> <<"1">>]>>]

RevenueNet ==
    DbtMetric(<<"revenue", "_", "net">>, <<"sum">>, Undefined, RefTo(<<"orders">>))

\* An expression over two metrics, the name of one being the start of the
\* name of the other.
Margin ==
    [DbtMetric(<<"margin">>, <<"expression">>,
               <<"revenue", "_", "net", " ", "-", " ", "revenue">>, << >>)
     EXCEPT !.metrics = << <<<<"revenue">>>>, <<<<"revenue", "_", "net">>>> >>]

\* Plain metrics of orders and expression metrics over them; revenue is also
\* an embedded metric of orders.amount.
SalesMetrics == <<Revenue, Cost, Net, RevenueNet, Margin>>

\* a and b reference each other; a is declared on users.
CyclicMetrics ==
    <<[DbtMetric(<<"a">>, <<"expression">>, <<"b">>, RefTo(<<"users">>))
          EXCEPT !.metrics = << <<<<"b">>>> >>],
      [DbtMetric(<<"b">>, <<"expression">>, <<"a">>, << >>)
          EXCEPT !.metrics = << <<<<"a">>>> >>]>>

\* A metric named like the column orders.amount; an unknown calculation method.
ClashingMetrics ==
    <<DbtMetric(<<"amount">>, <<"count">>, Undefined, RefTo(<<"orders">>)),
      DbtMetric(<<"visits">>, <<"median">>, Undefined, RefTo(<<"users">>))>>

\* Two expression metrics without references, one declared on events and one
\* on no model; one of sessions without expression text.
LooseMetrics ==
    <<DbtMetric(<<"free">>, <<"expression">>, <<"1">>, RefTo(<<"events">>)),
      DbtMetric(<<"flat">>, <<"expression">>, <<"1", " ", "+", " ", "1">>, << >>),
      [DbtMetric(<<"broken">>, <<"expression">>, Undefined, RefTo(<<"sessions">>))
          EXCEPT !.metrics = << <<<<"nothing">>>> >>]>>

\* An expression metric over metrics of two models; one over an unknown metric.
MixedMetrics ==
    <<[DbtMetric(<<"mixed">>, <<"expression">>,
                 <<"revenue", " ", "+", " ", "signups">>, << >>)
          EXCEPT !.metrics = << <<<<"revenue">>>>, <<<<"signups">>>> >>],
      Revenue,
      Signups,
      [DbtMetric(<<"ghost">>, <<"expression">>, <<"nothing">>, << >>)
          EXCEPT !.metrics = << <<<<"nothing">>>> >>]>>

MetricLists ==
    {<< >>, SalesMetrics, CyclicMetrics, ClashingMetrics, LooseMetrics, MixedMetrics}

PipelineAdapters == {"postgres", "snowflake"}

\* Every metric list on postgres without sources, and the sales metrics under
\* every adapter with and without sources: the adapter and loadSources act on
\* the columns and on the patch path, never on a dbt metric.
Configurations ==
    [metrics : MetricLists, adapterType : {"postgres"}, loadSources : {FALSE}]
        \cup [metrics : {SalesMetrics}, adapterType : PipelineAdapters,
              loadSources : BOOLEAN]

\* Lists of at most n distinct elements of S.
RECURSIVE ListsOf(_, _)
ListsOf(S, n) ==
    IF n = 0 THEN {<< >>}
    ELSE LET shorter == ListsOf(S, n - 1)
         IN  shorter \cup {Append(l, x) : l \in {t \in shorter : Len(t) = n - 1},
                                            x \in S}

Distinct(list) == \A j, k \in 1..Len(list) : list[j] = list[k] => j = k

ModelLists == {l \in ListsOf(ModelTemplates, MaxModels) : Distinct(l)}

-----------------------------------------------------------------------------
(* convertExplores as a state machine *)

Pending == [state |-> "pending"]

Returned(value) == [state |-> "returned", value |-> value]

Thrown(error) == [state |-> "thrown", error |-> error]

NoCatalog == << >>

Init ==
    /\ models \in ModelLists
    /\ \E c \in Configurations :
           /\ metrics = c.metrics
           /\ adapterType = c.adapterType
           /\ loadSources = c.loadSources
    /\ pc = "start"
    /\ idx = 0
    /\ tableLineage = << >>
    /\ tables = << >>
    /\ exploreErrors = << >>
    /\ explores = << >>
    /\ outcome = Pending
    /\ warehouseCatalog = NoCatalog
    /\ throwOnMissingCatalogEntry = TRUE
    /\ caseSensitiveMatching = TRUE
    /\ attached = << >>
    /\ keptMetrics = << >>
    /\ HookUnmounted

\* Line 831.
Lineage ==
    /\ UNCHANGED <<keptMetrics, hookVars>>
    /\ pc = "start"
    /\ tableLineage' = translateDbtModelsToTableLineage(models)
    /\ pc' = "tables"
    /\ UNCHANGED <<models, metrics, adapterType, loadSources, idx, tables,
                   exploreErrors, explores, outcome, warehouseCatalog,
                   throwOnMissingCatalogEntry, caseSensitiveMatching, attached>>

\* The accumulator of the reduce moves on, or the error leaves convertExplores.
ReduceMovesOn(r) ==
    IF r.ok
    THEN /\ tables' = r.value.tables
         /\ exploreErrors' = r.value.errors
         /\ idx' = idx + 1
         /\ UNCHANGED <<pc, outcome>>
    ELSE /\ outcome' = Thrown(r.error)
         /\ pc' = "done"
         /\ UNCHANGED <<tables, exploreErrors, idx>>

\* One call of the reduce callback, lines 832-873.
ConvertModel ==
    /\ UNCHANGED <<keptMetrics, hookVars>>
    /\ pc = "tables"
    /\ idx < Len(models)
    /\ ReduceMovesOn(TablePhase([tables |-> tables, errors |-> exploreErrors],
                                models[idx + 1], adapterType, loadSources, metrics,
                                tableLineage))
    /\ UNCHANGED <<models, metrics, adapterType, loadSources, tableLineage,
                   explores, warehouseCatalog, throwOnMissingCatalogEntry,
                   caseSensitiveMatching, attached>>

\* Lines 874-880: the reduce is over, the map starts.
StartExplores ==
    /\ UNCHANGED <<keptMetrics, hookVars>>
    /\ pc = "tables"
    /\ idx = Len(models)
    /\ pc' = "explores"
    /\ idx' = 0
    /\ UNCHANGED <<models, metrics, adapterType, loadSources, tableLineage, tables,
                   exploreErrors, explores, outcome, warehouseCatalog,
                   throwOnMissingCatalogEntry, caseSensitiveMatching, attached>>

\* tables.reduce(...) of lines 874-877 and models.filter(...) of 878-880.
ValidModelsNow == ValidModels(models, TableLookup(<< >>, tables))

MapMovesOn(r) ==
    IF r.ok
    THEN /\ explores' = Append(explores, r.value)
         /\ idx' = idx + 1
         /\ UNCHANGED <<pc, outcome>>
    ELSE /\ outcome' = Thrown(r.error)
         /\ pc' = "done"
         /\ UNCHANGED <<explores, idx>>

\* One call of the map callback, lines 881-903.
CompileModel ==
    /\ UNCHANGED <<keptMetrics, hookVars>>
    /\ pc = "explores"
    /\ idx < Len(ValidModelsNow)
    /\ MapMovesOn(JoinPhase(ValidModelsNow[idx + 1], TableLookup(<< >>, tables),
                            adapterType))
    /\ UNCHANGED <<models, metrics, adapterType, loadSources, tableLineage, tables,
                   exploreErrors, warehouseCatalog, throwOnMissingCatalogEntry,
                   caseSensitiveMatching, attached>>

\* Line 905.
Return ==
    /\ UNCHANGED <<keptMetrics, hookVars>>
    /\ pc = "explores"
    /\ idx = Len(ValidModelsNow)
    /\ outcome' = Returned(Concatenate(explores, exploreErrors))
    /\ pc' = "done"
    /\ UNCHANGED <<models, metrics, adapterType, loadSources, idx, tableLineage,
                   tables, exploreErrors, explores, warehouseCatalog,
                   throwOnMissingCatalogEntry, caseSensitiveMatching, attached>>

Next == Lineage \/ ConvertModel \/ StartExplores \/ CompileModel \/ Return

Spec == Init /\ [][Next]_vars

-----------------------------------------------------------------------------
(* attachTypesToModels, lines 908-1011 *)

\* The warehouse catalog is an object of objects: database, schema, table,
\* column, each level a list of entries in key order.

\* Faulty variant of Find: the keys are compared as they are, whatever the flag.
FindExactOnly(keys, wanted, caseSensitive) ==
    IF \E k \in 1..Len(keys) : keys[k] = wanted THEN wanted ELSE Undefined

\* Array.prototype.find over the keys of one level, lines 922-926.
RECURSIVE Find(_, _, _)
Find(keys, wanted, caseSensitive) ==
    IF keys = << >> THEN Undefined
    ELSE IF (IF caseSensitive
             THEN keys[1] = wanted
             ELSE toLowerCase(keys[1]) = toLowerCase(wanted))
         THEN keys[1]
         ELSE Find(Tail(keys), wanted, caseSensitive)

\* Lines 922-926 and 953-957.
DatabaseMatch(model, catalog, caseSensitive) ==
    Find(Keys(catalog), model.database, caseSensitive)

\* Lines 927-933 and 958-964.
SchemaMatch(model, catalog, caseSensitive, databaseMatch) ==
    IF Truthy(databaseMatch)
    THEN Find(Keys(Get(catalog, databaseMatch)), model.schema, caseSensitive)
    ELSE databaseMatch

\* Lines 934-943 and 965-974.
TableMatchIn(model, catalog, caseSensitive, databaseMatch, schemaMatch) ==
    IF Truthy(databaseMatch) /\ Truthy(schemaMatch)
    THEN Find(Keys(Get(Get(catalog, databaseMatch), schemaMatch)),
              model.name, caseSensitive)
    ELSE Undefined

\* The three lookups in a row; the result is the list of the keys matched.
TableMatch(model, catalog, caseSensitive) ==
    LET databaseMatch == DatabaseMatch(model, catalog, caseSensitive)
        schemaMatch == SchemaMatch(model, catalog, caseSensitive, databaseMatch)
        tableMatch == TableMatchIn(model, catalog, caseSensitive,
                                   databaseMatch, schemaMatch)
    IN  [database |-> databaseMatch, schema |-> schemaMatch, table |-> tableMatch]

Qualified(model) == model.database \o <<".">> \o model.schema \o <<".">> \o model.name

\* Faulty variant of MissingTable: only the database is looked up.
MissingTableDatabaseOnly(model, catalog, throwOnMissing, caseSensitive) ==
    /\ ~Truthy(DatabaseMatch(model, catalog, caseSensitive))
    /\ throwOnMissing

\* The condition of line 944.
MissingTable(model, catalog, throwOnMissing, caseSensitive) ==
    /\ ~Truthy(TableMatch(model, catalog, caseSensitive).table)
    /\ throwOnMissing

\* Lines 945-948.
MissingModelError(model) ==
    [name |-> "MissingCatalogEntryError",
     message |-> <<"Model \"">> \o model.name
                     \o <<"\" was expected in your target warehouse at \"">>
                     \o Qualified(model)
                     \o <<"\". Does the table exist in your target data warehouse?">>]

\* Lines 975-986.
ColumnMatch(catalog, caseSensitive, found, columnName) ==
    IF Truthy(found.database) /\ Truthy(found.schema) /\ Truthy(found.table)
    THEN Find(Keys(Get(Get(Get(catalog, found.database), found.schema), found.table)),
              columnName, caseSensitive)
    ELSE Undefined

\* Faulty variant of TypeOrMissing: a missing entry throws whatever the flag.
TypeOrMissingAlwaysThrows(model, columnName, catalog, throwOnMissing, found, columnMatch) ==
    IF Truthy(found.database) /\ Truthy(found.schema) /\ Truthy(found.table)
           /\ Truthy(columnMatch)
    THEN Ok(Get(Get(Get(Get(catalog, found.database), found.schema), found.table),
                columnMatch))
    ELSE Throw("MissingCatalogEntryError", <<"Column \"">> \o columnName)

\* Faulty variant of TypeOrMissing: the matched key is returned, not its type.
TypeOrMissingReturnsKey(model, columnName, catalog, throwOnMissing, found, columnMatch) ==
    IF Truthy(found.database) /\ Truthy(found.schema) /\ Truthy(found.table)
           /\ Truthy(columnMatch)
    THEN Ok(columnMatch)
    ELSE IF throwOnMissing
    THEN Throw("MissingCatalogEntryError", <<"Column \"">> \o columnName)
    ELSE Ok(Undefined)

\* Lines 987-998.
TypeOrMissing(model, columnName, catalog, throwOnMissing, found, columnMatch) ==
    IF Truthy(found.database) /\ Truthy(found.schema) /\ Truthy(found.table)
           /\ Truthy(columnMatch)
    THEN Ok(Get(Get(Get(Get(catalog, found.database), found.schema), found.table),
                columnMatch))
    ELSE IF throwOnMissing
    THEN Throw("MissingCatalogEntryError",
               <<"Column \"">> \o columnName \o <<"\" from model \"">> \o model.name
                   \o <<"\" does not exist.\n \"">> \o model.name \o <<".">>
                   \o columnName
                   \o <<"\" was not found in your target warehouse at ">>
                   \o Qualified(model)
                   \o <<". Try rerunning dbt to update your warehouse.">>)
    ELSE Ok(Undefined)

\* Lines 950-999.
getType(model, columnName, catalog, throwOnMissing, caseSensitive) ==
    TypeOrMissing(model, columnName, catalog, throwOnMissing,
                  TableMatch(model, catalog, caseSensitive),
                  ColumnMatch(catalog, caseSensitive,
                              TableMatch(model, catalog, caseSensitive), columnName))

\* Lines 1004-1009: the columns in order, the first failure ends the walk.
RECURSIVE AttachColumns(_, _, _, _, _, _)
AttachColumns(done, rest, model, catalog, throwOnMissing, caseSensitive) ==
    IF rest = << >> THEN Ok(done)
    ELSE Then(getType(model, rest[1].name, catalog, throwOnMissing, caseSensitive),
              LAMBDA type :
                  AttachColumns(Append(done, [rest[1] EXCEPT !.data_type = type]),
                                Tail(rest), model, catalog, throwOnMissing,
                                caseSensitive))

\* The callback of the map, lines 1002-1010.
AttachModelTypes(model, catalog, throwOnMissing, caseSensitive) ==
    Then(AttachColumns(<< >>, model.columns, model, catalog, throwOnMissing,
                       caseSensitive),
         LAMBDA columns : Ok([model EXCEPT !.columns = columns]))

\* Catalogs and models of the runs.

CatalogEntry(key, val) == [k |-> key, v |-> val]

UsersColumns ==
    <<CatalogEntry(<<"id">>, <<"number">>), CatalogEntry(<<"created">>, <<"timestamp">>),
      CatalogEntry(<<"seen">>, <<"date">>)>>

\* db.public holds users in full and orders without its created column.
CatalogLower ==
    <<CatalogEntry(<<"db">>,
        <<CatalogEntry(<<"public">>,
            <<CatalogEntry(<<"users">>, UsersColumns),
              CatalogEntry(<<"orders">>,
                           <<CatalogEntry(<<"amount">>, <<"number">>)>>)>>)>>)>>

\* An empty database DB comes before db.
CatalogShadowed ==
    <<CatalogEntry(<<"DB">>, << >>)>> \o CatalogLower

Catalogs == {NoCatalog, CatalogLower, CatalogShadowed}

\* The users model as a project in upper case declares it.
UsersUpper ==
    [Model("p", <<"Users">>,
           <<Column(<<"Id">>, Undefined), Column(<<"CREATED">>, Undefined)>>)
     EXCEPT !.database = <<"DB">>, !.schema = <<"Public">>]

\* An orders model of another package whose amount is declared with a type
\* that is no DimensionType; the catalog knows db.public.orders.amount.
OrdersGeography ==
    Model("r", <<"orders">>,
          <<[Column(<<"amount">>, Undefined) EXCEPT
                !.dimension = [NoDimension EXCEPT !.type = <<"geography">>]]>>)

AttachTemplates == {Users, Orders, UsersUpper, Sessions, OrdersGeography}

AttachModelLists == {l \in ListsOf(AttachTemplates, MaxModels) : Distinct(l)}

InitAttach ==
    /\ models \in AttachModelLists
    /\ warehouseCatalog \in Catalogs
    /\ throwOnMissingCatalogEntry \in BOOLEAN
    /\ caseSensitiveMatching \in BOOLEAN
    /\ pc = "check"
    /\ idx = 0
    /\ attached = << >>
    /\ outcome = Pending
    /\ metrics = << >>
    /\ adapterType = "postgres"
    /\ loadSources = FALSE
    /\ tableLineage = << >>
    /\ tables = << >>
    /\ exploreErrors = << >>
    /\ explores = << >>
    /\ keptMetrics = << >>
    /\ HookUnmounted

\* One turn of the forEach, lines 921-950.
CheckModel ==
    /\ UNCHANGED <<keptMetrics, hookVars>>
    /\ pc = "check"
    /\ idx < Len(models)
    /\ IF MissingTable(models[idx + 1], warehouseCatalog, throwOnMissingCatalogEntry,
                       caseSensitiveMatching)
       THEN /\ outcome' = Thrown(MissingModelError(models[idx + 1]))
            /\ pc' = "done"
            /\ UNCHANGED idx
       ELSE /\ idx' = idx + 1
            /\ UNCHANGED <<pc, outcome>>
    /\ UNCHANGED <<models, metrics, adapterType, loadSources, tableLineage, tables,
                   exploreErrors, explores, warehouseCatalog,
                   throwOnMissingCatalogEntry, caseSensitiveMatching, attached>>

\* Line 1002: the forEach is over, the map begins.
StartAttach ==
    /\ UNCHANGED <<keptMetrics, hookVars>>
    /\ pc = "check"
    /\ idx = Len(models)
    /\ pc' = "attach"
    /\ idx' = 0
    /\ UNCHANGED <<models, metrics, adapterType, loadSources, tableLineage, tables,
                   exploreErrors, explores, outcome, warehouseCatalog,
                   throwOnMissingCatalogEntry, caseSensitiveMatching, attached>>

\* The map moves on, or the error leaves attachTypesToModels.
AttachMovesOn(r) ==
    IF r.ok
    THEN /\ attached' = Append(attached, r.value)
         /\ idx' = idx + 1
         /\ UNCHANGED <<pc, outcome>>
    ELSE /\ outcome' = Thrown(r.error)
         /\ pc' = "done"
         /\ UNCHANGED <<idx, attached>>

\* One turn of the map, lines 1002-1010.
AttachModel ==
    /\ UNCHANGED <<keptMetrics, hookVars>>
    /\ pc = "attach"
    /\ idx < Len(models)
    /\ AttachMovesOn(AttachModelTypes(models[idx + 1], warehouseCatalog,
                                      throwOnMissingCatalogEntry,
                                      caseSensitiveMatching))
    /\ UNCHANGED <<models, metrics, adapterType, loadSources, tableLineage, tables,
                   exploreErrors, explores, warehouseCatalog,
                   throwOnMissingCatalogEntry, caseSensitiveMatching>>

\* Line 1002: the mapped list is returned.
ReturnAttached ==
    /\ UNCHANGED <<keptMetrics, hookVars>>
    /\ pc = "attach"
    /\ idx = Len(models)
    /\ outcome' = Returned(attached)
    /\ pc' = "done"
    /\ UNCHANGED <<models, metrics, adapterType, loadSources, idx, tableLineage,
                   tables, exploreErrors, explores, warehouseCatalog,
                   throwOnMissingCatalogEntry, caseSensitiveMatching, attached>>

NextAttach == CheckModel \/ StartAttach \/ AttachModel \/ ReturnAttached

SpecAttach == InitAttach /\ [][NextAttach]_vars

-----------------------------------------------------------------------------
(* metrics.filter(...) of lines 838-840 on its own, over every small metric set *)

MaxMetrics == 2

MetricNames == << <<"a">>, <<"b">>, <<"c">>, <<"d">> >>

\* The names of the first n metrics and a name that no metric has.
NamesUpTo(n) == {MetricNames[k] : k \in 1..n} \cup {<<"ghost">>}

\* metric.metrics: no reference, one, or two.
ReferenceLists(n) ==
    {<< >>} \cup {<< <<x>> >> : x \in NamesUpTo(n)}
            \cup {<< <<x>>, <<y>> >> : x \in NamesUpTo(n), y \in NamesUpTo(n)}

\* metric.refs: none, or the model the filter runs for.
FirstRefs == {<< >>, RefTo(<<"orders">>)}

\* A plain aggregation, or an expression over some of the n metrics.
MetricShapes(name, n) ==
    {DbtMetric(name, <<"sum">>, Undefined, r) : r \in FirstRefs}
        \cup {[DbtMetric(name, <<"expression">>, <<"1">>, r) EXCEPT !.metrics = l] :
                  r \in FirstRefs, l \in ReferenceLists(n)}

\* The lists of the first k of n metrics.
RECURSIVE MetricSets(_, _)
MetricSets(k, n) ==
    IF k = 0 THEN {<< >>}
    ELSE {Append(list, m) : list \in MetricSets(k - 1, n),
                            m \in MetricShapes(MetricNames[k], n)}

InitFilter ==
    /\ \E n \in 1..MaxMetrics : metrics \in MetricSets(n, n)
    /\ models = <<Orders>>
    /\ pc = "filter"
    /\ idx = 0
    /\ keptMetrics = << >>
    /\ outcome = Pending
    /\ adapterType = "postgres"
    /\ loadSources = FALSE
    /\ tableLineage = << >>
    /\ tables = << >>
    /\ exploreErrors = << >>
    /\ explores = << >>
    /\ warehouseCatalog = NoCatalog
    /\ throwOnMissingCatalogEntry = TRUE
    /\ caseSensitiveMatching = TRUE
    /\ attached = << >>
    /\ HookUnmounted

\* The filter keeps the metric or not, or the error of the call leaves it.
FilterMovesOn(metric, r) ==
    IF r.ok
    THEN /\ keptMetrics' = IF r.value THEN Append(keptMetrics, metric) ELSE keptMetrics
         /\ idx' = idx + 1
         /\ UNCHANGED <<pc, outcome>>
    ELSE /\ outcome' = Thrown(r.error)
         /\ pc' = "done"
         /\ UNCHANGED <<keptMetrics, idx>>

\* One call of the filter callback, line 839.
FilterMetric ==
    /\ pc = "filter"
    /\ idx < Len(metrics)
    /\ FilterMovesOn(metrics[idx + 1],
                     modelCanUseMetric(metrics[idx + 1].name, models[1].name, metrics))
    /\ UNCHANGED <<models, metrics, adapterType, loadSources, tableLineage, tables,
                   exploreErrors, explores, warehouseCatalog,
                   throwOnMissingCatalogEntry, caseSensitiveMatching, attached>>
    /\ UNCHANGED hookVars

\* The filter is over: tableMetrics is the list of the metrics kept.
FilterReturns ==
    /\ pc = "filter"
    /\ idx = Len(metrics)
    /\ outcome' = Returned(keptMetrics)
    /\ pc' = "done"
    /\ UNCHANGED <<models, metrics, adapterType, loadSources, idx, tableLineage,
                   tables, exploreErrors, explores, warehouseCatalog,
                   throwOnMissingCatalogEntry, caseSensitiveMatching, attached,
                   keptMetrics>>
    /\ UNCHANGED hookVars

NextFilter == FilterMetric \/ FilterReturns

SpecFilter == InitFilter /\ [][NextFilter]_vars

-----------------------------------------------------------------------------
(* usePieChartConfig, lines 80-214: groupFieldIds, its effect and its handlers *)

\* A field id is one token.  null in groupFieldIds is an id that, like a stale
\* one, is no dimension id; fieldId never gives an empty text.

MaxDimensions == 2

MaxCalls == 2

FieldIdPool == <<"orders_status", "orders_region", "orders_day", "orders_id">>

\* The id of a dimension that the explore no longer has.
StaleId == "orders_gone"

FieldIds == {FieldIdPool[k] : k \in 1..MaxDimensions} \cup {StaleId}

\* new Set(list).values(): the first occurrence of every element, in order.
RECURSIVE SetOf(_)
SetOf(list) ==
    IF list = << >> THEN << >>
    ELSE LET before == SetOf(SubSeq(list, 1, Len(list) - 1))
             last == list[Len(list)]
         IN  IF last \in Range(before) THEN before ELSE Append(before, last)

\* Set.prototype.delete
SetDelete(list, value) ==
    LET Other(x) == x # value
    IN  SelectSeq(list, Other)

\* Set.prototype.add
SetAdd(list, value) == IF value \in Range(list) THEN list ELSE Append(list, value)

\* What a state updater or the effect does to the state: a new array, or the
\* array as it is, which React takes as no update.
Update(value) == [set |-> TRUE, value |-> value]

NoUpdate(value) == [set |-> FALSE, value |-> value]

\* Array.prototype.find: the first element of list that is not in taken.
RECURSIVE FirstNotIn(_, _)
FirstNotIn(list, taken) ==
    IF list = << >> THEN << >>
    ELSE IF list[1] \notin Range(taken) THEN <<list[1]>>
    ELSE FirstNotIn(Tail(list), taken)

\* The updater of lines 187-192.
handleGroupChange(prev, prevValue, newValue) ==
    Update(SetAdd(SetDelete(SetOf(prev), prevValue), newValue))

\* Faulty variant of handleGroupAdd: the next id pushed on the array, found or not.
handleGroupAddPush(prev, ids) ==
    IF ids = << >> THEN NoUpdate(prev)
    ELSE Update(Append(prev, IF FirstNotIn(ids, prev) = << >>
                             THEN ids[1]
                             ELSE FirstNotIn(ids, prev)[1]))

\* The updater of lines 198-205.
handleGroupAdd(prev, ids) ==
    IF FirstNotIn(ids, prev) = << >> THEN NoUpdate(prev)
    ELSE Update(SetAdd(SetOf(prev), FirstNotIn(ids, prev)[1]))

\* The updater of lines 209-213.
handleRemoveGroup(prev, dimensionId) == Update(SetDelete(SetOf(prev), dimensionId))

\* groupFieldIds.filter((id) => dimensionIds.includes(id))
Available(list, ids) ==
    LET Included(id) == id \in Range(ids)
    IN  SelectSeq(list, Included)

\* Faulty variant of DimensionSync: without the isEqual test of line 173.
DimensionSyncAlwaysSets(loading, ids, current) ==
    IF loading THEN NoUpdate(current)
    ELSE IF Available(current, ids) = << >> /\ ids # << >>
    THEN Update(<<ids[1]>>)
    ELSE Update(Available(current, ids))

\* The effect of lines 160-176.
DimensionSync(loading, ids, current) ==
    IF loading THEN NoUpdate(current)
    ELSE IF Available(current, ids) = << >> /\ ids # << >>
    THEN Update(<<ids[1]>>)
    ELSE IF Available(current, ids) = current THEN NoUpdate(current)
    ELSE Update(Available(current, ids))

\* No translator operation runs while the hook is mounted.
TranslatorIdle ==
    /\ models = << >>
    /\ metrics = << >>
    /\ adapterType = "postgres"
    /\ loadSources = FALSE
    /\ pc = "mounted"
    /\ idx = 0
    /\ tableLineage = << >>
    /\ tables = << >>
    /\ exploreErrors = << >>
    /\ explores = << >>
    /\ outcome = Pending
    /\ warehouseCatalog = NoCatalog
    /\ throwOnMissingCatalogEntry = TRUE
    /\ caseSensitiveMatching = TRUE
    /\ attached = << >>
    /\ keptMetrics = << >>

\* The first render: the state is pieChartConfig?.groupFieldIds ?? [], any
\* list of ids, and the effect is due.
InitHook ==
    /\ TranslatorIdle
    /\ \E n \in 0..MaxDimensions : dimensionIds = SubSeq(FieldIdPool, 1, n)
    /\ isLoading \in BOOLEAN
    /\ groupFieldIds \in ListsOf(FieldIds, MaxDimensions)
    /\ effectDue = TRUE
    /\ calls = 0

\* A state update is a new array: the component renders again and the effect,
\* which depends on groupFieldIds, is due.
StateMovesOn(update) ==
    /\ groupFieldIds' = update.value
    /\ effectDue' = (effectDue \/ update.set)

\* explore and resultsData have arrived, line 158.
Loaded ==
    /\ isLoading
    /\ isLoading' = FALSE
    /\ effectDue' = TRUE
    /\ UNCHANGED <<translatorVars, dimensionIds, groupFieldIds, calls>>

\* One run of the effect, lines 160-176: it is due again only after an update.
SyncEffect ==
    /\ effectDue
    /\ groupFieldIds' = DimensionSync(isLoading, dimensionIds, groupFieldIds).value
    /\ effectDue' = DimensionSync(isLoading, dimensionIds, groupFieldIds).set
    /\ UNCHANGED <<translatorVars, dimensionIds, isLoading, calls>>

GroupChange ==
    /\ calls < MaxCalls
    /\ \E prevValue \in FieldIds, newValue \in FieldIds :
           StateMovesOn(handleGroupChange(groupFieldIds, prevValue, newValue))
    /\ calls' = calls + 1
    /\ UNCHANGED <<translatorVars, dimensionIds, isLoading>>

GroupAdd ==
    /\ calls < MaxCalls
    /\ StateMovesOn(handleGroupAdd(groupFieldIds, dimensionIds))
    /\ calls' = calls + 1
    /\ UNCHANGED <<translatorVars, dimensionIds, isLoading>>

GroupRemove ==
    /\ calls < MaxCalls
    /\ \E dimensionId \in FieldIds :
           StateMovesOn(handleRemoveGroup(groupFieldIds, dimensionId))
    /\ calls' = calls + 1
    /\ UNCHANGED <<translatorVars, dimensionIds, isLoading>>

NextHook == Loaded \/ SyncEffect \/ GroupChange \/ GroupAdd \/ GroupRemove

SpecHook == InitHook /\ [][NextHook]_vars

\* React runs an effect that is due.
SpecHookFair == SpecHook /\ WF_vars(SyncEffect)

-----------------------------------------------------------------------------
(* Vocabulary of the properties *)

\* The try block of the reduce callback on one model of the run.
Converted(model) ==
    TryConvertTable(model, adapterType, loadSources, metrics, tableLineage)

ConvertsOk(model) == Converted(model).ok

ConvertFails(model) == ~Converted(model).ok

\* How many models the reduce has consumed.
Consumed == IF pc = "start" THEN 0 ELSE IF pc = "tables" THEN idx ELSE Len(models)

ConsumedModels == SubSeq(models, 1, Consumed)

\* The consumed models whose table exists, and those that failed, in input order.
ConvertedModels == SelectSeq(ConsumedModels, ConvertsOk)

FailedModels == SelectSeq(ConsumedModels, ConvertFails)

NamesOf(records) == [k \in 1..Len(records) |-> records[k].name]

\* An ExploreError of the table phase carries tags, one of the join phase does not.
IsTableError(record) == IsExploreError(record) /\ "tags" \in DOMAIN record

IsJoinError(record) == IsExploreError(record) /\ "tags" \notin DOMAIN record

IsExplore(record) == ~IsExploreError(record)

NotTableError(record) == ~IsTableError(record)

Finished == pc = "done" /\ outcome.state = "returned"

\* The models the join phase maps, from the tables of the models that convert.
CompilesOk(model) ==
    compileExplore(model.name, TableLabel(model), model.tags, model.name,
                   JoinedTables(model), TableLookup(<< >>, tables), adapterType).ok

-----------------------------------------------------------------------------
(* C1: convertExplores never throws: a model whose table conversion fails is   *)
(* reported as one ExploreError, and every model that converts and compiles    *)
(* is still returned as an Explore, whatever the other models do.              *)

C1_Isolation ==
    pc = "done" =>
        /\ outcome.state = "returned"
        /\ NamesOf(SelectSeq(outcome.value, IsTableError)) = NamesOf(FailedModels)
        /\ \A i \in 1..Len(models) :
               (ConvertsOk(models[i]) /\ CompilesOk(models[i])) =>
                   \E k \in 1..Len(outcome.value) :
                       /\ IsExplore(outcome.value[k])
                       /\ outcome.value[k].name = models[i].name
                       /\ outcome.value[k].baseTable = models[i].name
                       /\ Has(outcome.value[k].tables, models[i].name)

\* A run that returned an ExploreError for one model and an Explore for another.
C1_Witness ==
    /\ Finished
    /\ \E j, k \in 1..Len(outcome.value) :
           /\ IsTableError(outcome.value[j])
           /\ IsExplore(outcome.value[k])
           /\ outcome.value[j].name # outcome.value[k].name

-----------------------------------------------------------------------------
(* C2: the returned list is the successful Explores in input order followed by *)
(* the ExploreErrors of both phases; no ExploreError precedes an Explore.      *)

-----------------------------------------------------------------------------
(* C3: the dimension keys and the metric keys of every Table are disjoint;     *)
(* when the merged metrics of a model share a name with its dimensions,        *)
(* convertTable throws a ParseError that lists every such name.                *)

Contains(text, part) ==
    \E k \in 0..(Len(text) - Len(part)) : SubSeq(text, k + 1, k + Len(part)) = part

KeysDisjoint(table) ==
    \A j \in 1..Len(table.dimensions), k \in 1..Len(table.metrics) :
        table.dimensions[j].k # table.metrics[k].k

\* reduced and converted are the two maps convertTable merges, result is what
\* convertTable gave for the model.
C3_Given(model, reduced, converted, result) ==
    /\ result.ok => KeysDisjoint(result.value)
    /\ (model.compiled /\ reduced.ok /\ converted.ok) =>
           LET clash == {n \in Range(Keys(reduced.value.dimensions)) :
                            Has(converted.value, n) \/ Has(reduced.value.metrics, n)}
           IN  clash # {} =>
                   /\ ~result.ok
                   /\ result.error.name = "ParseError"
                   /\ \A n \in clash : Contains(result.error.message, n)

C3_Model(model, dbtMetrics) ==
    C3_Given(model,
             ColumnsReduce(<< >>, << >>, model.columns, adapterType, model,
                           TableLabel(model)),
             ConvertedDbtMetrics(<< >>, dbtMetrics, model.name, TableLabel(model)),
             convertTable(adapterType, model, dbtMetrics))

C3_OnFiltered(model, filtered) == filtered.ok => C3_Model(model, filtered.value)

-----------------------------------------------------------------------------
(* C4: a name declared both as dbt metric and as embedded metric holds the     *)
(* embedded metric in the Table; every other dbt metric is there as converted. *)

BaseDimension(model, column) ==
    convertDimension(adapterType, model, TableLabel(model), column, Undefined).value

C4_Given(model, table, dbtMetrics) ==
    \A k \in 1..Len(dbtMetrics) :
        LET name == dbtMetrics[k].name
            owners == {c \in Range(model.columns) : Has(c.metrics, name)}
        IN  /\ Has(table.metrics, name)
            /\ IF owners # {}
               THEN \E c \in owners :
                        Get(table.metrics, name) =
                            convertMetric(model.name, BaseDimension(model, c).name,
                                          BaseDimension(model, c).sql, name,
                                          Get(c.metrics, name), TableLabel(model))
               ELSE Get(table.metrics, name) =
                        convertDbtMetricToLightdashMetric(
                            dbtMetrics[k], model.name, TableLabel(model)).value

C4_EmbeddedMetricWins ==
    LET converted == ConvertedModels
    IN  /\ Len(tables) = Len(converted)
        /\ \A k \in 1..Len(tables) :
               C4_Given(converted[k], tables[k],
                        TableMetrics(converted[k], metrics).value)

\* orders with the sales metrics: revenue is the embedded MAX, cost the dbt SUM.
C4_Witness ==
    \E k \in 1..Len(tables) :
        /\ tables[k].name = <<"orders">>
        /\ Has(tables[k].metrics, <<"revenue">>)
        /\ Has(tables[k].metrics, <<"cost">>)
        /\ Get(tables[k].metrics, <<"revenue">>).type = <<"MAX">>
        /\ Get(tables[k].metrics, <<"cost">>).type = <<"SUM">>
        /\ metrics = SalesMetrics

-----------------------------------------------------------------------------
(* C5: modelCanUseMetric is true for the model of the metric's first ref; for  *)
(* another model it is true only for an expression metric all of whose         *)
(* referenced metrics are usable by that model, and false for every other      *)
(* metric.                                                                     *)

IsExpression(metric) == metric.calculation_method = <<"expression">>

C5_Given(metric, modelName, r) ==
    /\ ModelRef(metric) = modelName => r = Ok(TRUE)
    /\ (ModelRef(metric) # modelName /\ r = Ok(TRUE)) =>
           /\ IsExpression(metric)
           /\ \A j \in 1..Len(metric.metrics) :
                  modelCanUseMetric(ReferencedMetrics(metric)[j], modelName, metrics)
                      = Ok(TRUE)
    /\ (ModelRef(metric) # modelName /\ ~IsExpression(metric)) => r = Ok(FALSE)

C5_ModelCanUseMetric ==
    /\ \A i \in 1..Len(models), k \in 1..Len(metrics) :
           C5_Given(metrics[k], models[i].name,
                    modelCanUseMetric(metrics[k].name, models[i].name, metrics))
    /\ LET converted == ConvertedModels
       IN  \A t \in 1..Len(tables), k \in 1..Len(metrics) :
               Has(tables[t].metrics, metrics[k].name) =>
                   \/ modelCanUseMetric(metrics[k].name, tables[t].name, metrics)
                          = Ok(TRUE)
                   \/ \E c \in Range(converted[t].columns) :
                          Has(c.metrics, metrics[k].name)

\* orders got net, an expression metric without ref of its own, and did not get
\* mixed, which also needs a metric of users.
C5_Witness ==
    \/ \E t \in 1..Len(tables) :
           /\ tables[t].name = <<"orders">>
           /\ metrics = SalesMetrics
           /\ Has(tables[t].metrics, <<"net">>)
    \/ \E t \in 1..Len(tables) :
           /\ tables[t].name = <<"orders">>
           /\ metrics = MixedMetrics
           /\ ~Has(tables[t].metrics, <<"mixed">>)

-----------------------------------------------------------------------------
(* C6: a DATE or TIMESTAMP column without time_intervals override has, in the  *)
(* dimension map of its Table, one expanded dimension per default interval of  *)
(* its type, under <column>_<interval> and with the column as group.           *)

HasDefaultIntervals(column) ==
    /\ ResolvedType(column) \in {<<"date">>, <<"timestamp">>}
    /\ column.dimension.time_intervals.kind = "undefined"

C6_Given(table, column) ==
    HasDefaultIntervals(column) =>
        \A j \in 1..Len(getDefaultTimeFrames(ResolvedType(column))) :
            LET interval == getDefaultTimeFrames(ResolvedType(column))[j]
            IN  \E e \in Range(table.dimensions) :
                    /\ e.k = column.name \o <<"_">> \o interval
                    /\ e.v.name = column.name \o <<"_">> \o toLowerCase(interval)
                    /\ e.v.timeInterval = interval
                    /\ e.v.group = column.name

\* The claim as stated.
C6_DefaultIntervalsPresent ==
    \A k \in 1..Len(tables) :
        \A c \in Range(ConvertedModels[k].columns) : C6_Given(tables[k], c)

-----------------------------------------------------------------------------
(* C7: a column whose type is not DATE or TIMESTAMP, or whose time_intervals   *)
(* is 'OFF', adds exactly one dimension, under its own name, and the Table has *)
(* no expansion of it.                                                         *)

MayExpand(column) ==
    /\ ResolvedType(column) \in {<<"date">>, <<"timestamp">>}
    /\ ~(/\ column.dimension.time_intervals.kind = "string"
         /\ column.dimension.time_intervals.str = <<"OFF">>)

\* added is what the reduce callback of lines 680-750 adds for the column.
C7_Given(table, column, added) ==
    /\ ~MayExpand(column) =>
           /\ Len(added.dimensions) = 1
           /\ added.dimensions[1].k = column.name
           /\ added.dimensions[1].v.timeInterval = Undefined
           /\ added.dimensions[1].v.group = Undefined
           /\ Has(table.dimensions, column.name)
           /\ \A e \in Range(table.dimensions) : e.v.group # column.name
    /\ (\E e \in Range(table.dimensions) : e.v.group = column.name) => MayExpand(column)

C7_Column(model, table, column) ==
    C7_Given(table, column,
             ConvertColumn(adapterType, model, TableLabel(model), column).value)

C7_ExpansionOnlyForDates ==
    LET converted == ConvertedModels
    IN  \A k \in 1..Len(tables) :
            \A c \in Range(converted[k].columns) :
                C7_Column(converted[k], tables[k], c)

\* users: seen is a date with 'OFF', id a string, created a timestamp with a list.
C7_Witness ==
    \E k \in 1..Len(tables) :
        /\ tables[k].name = <<"users">>
        /\ Has(tables[k].dimensions, <<"seen">>)
        /\ ~Has(tables[k].dimensions, <<"seen", "_", "DAY">>)
        /\ Has(tables[k].dimensions, <<"id">>)
        /\ Has(tables[k].dimensions, <<"created", "_", "DAY">>)

-----------------------------------------------------------------------------
(* C8: convertTable on a model that is not compiled throws                     *)
(* NonCompiledModelError whatever else is wrong, and convertExplores reports   *)
(* that failure as an ExploreError of that type for the model.                 *)

NonCompiled ==
    [name |-> "NonCompiledModelError", message |-> <<"Model has not been compiled by dbt">>]

IsNonCompiledFailure(r) == ~r.ok /\ r.error = NonCompiled

\* The ExploreError of the i-th model, which failed: errors are appended in order.
ErrorOf(i) == exploreErrors[Len(SelectSeq(SubSeq(models, 1, i), ConvertFails))]

C8_Given(i, filtered) ==
    /\ IsNonCompiledFailure(convertTable(adapterType, models[i], metrics))
    /\ IsNonCompiledFailure(convertTable(adapterType, models[i], << >>))
    /\ filtered.ok =>
           /\ IsNonCompiledFailure(convertTable(adapterType, models[i], filtered.value))
           /\ ErrorOf(i).name = models[i].name
           /\ ErrorOf(i).errors =
                  <<[type |-> NonCompiled.name, message |-> NonCompiled.message]>>

C8_NonCompiledModel ==
    /\ Len(exploreErrors) = Len(FailedModels)
    /\ \A i \in 1..Consumed :
           ~models[i].compiled => C8_Given(i, TableMetrics(models[i], metrics))

\* events, not compiled and with an unknown column type, was reported.
C8_Witness ==
    \E k \in 1..Len(exploreErrors) :
        /\ exploreErrors[k].name = <<"events">>
        /\ exploreErrors[k].errors[1].type = "NonCompiledModelError"

-----------------------------------------------------------------------------
(* C9: the lineage graph of a Table has the names of the model's transitive    *)
(* family as keys, and maps every member to that member's direct dependencies. *)

DependsOn ==
    UNION {{<<models[i].unique_id, models[i].depends_on[j]>> :
               j \in 1..Len(models[i].depends_on)} : i \in 1..Len(models)}

RECURSIVE TransitiveClosure(_)
TransitiveClosure(R) ==
    LET more == R \cup {<<a[1], b[2]>> : a \in R, b \in {c \in R : TRUE}}
        joined == R \cup {p \in more : \E a \in R, b \in R :
                              a[2] = b[1] /\ p = <<a[1], b[2]>>}
    IN  IF joined = R THEN R ELSE TransitiveClosure(joined)

Family(nodeId) ==
    {nodeId} \cup {p[2] : p \in {q \in TransitiveClosure(DependsOn) : q[1] = nodeId}}
             \cup {p[1] : p \in {q \in TransitiveClosure(DependsOn) : q[2] = nodeId}}

GraphNodes ==
    {models[i].unique_id : i \in 1..Len(models)} \cup {p[2] : p \in DependsOn}

NodeNamesDistinct ==
    \A a, b \in GraphNodes : NodeData(a).name = NodeData(b).name => a = b

C9_Given(model, lineageGraph) ==
    /\ Range(Keys(lineageGraph)) = {NodeData(n).name : n \in Family(model.unique_id)}
    /\ \A n \in Family(model.unique_id) :
           /\ Has(lineageGraph, NodeData(n).name)
           /\ Range(Get(lineageGraph, NodeData(n).name)) =
                  {NodeData(p[2]) : p \in {q \in DependsOn : q[1] = n}}
           /\ Len(Get(lineageGraph, NodeData(n).name)) =
                  Cardinality({q \in DependsOn : q[1] = n})

\* The claim as stated.
C9_LineageOfFamily ==
    \A k \in 1..Len(tables) : C9_Given(ConvertedModels[k], tables[k].lineageGraph)

\* As amended: when no two nodes of the model graph share a name.
C9_LineageOfFamilyDistinctNames ==
    NodeNamesDistinct =>
        LET converted == ConvertedModels
        IN  \A k \in 1..Len(tables) : C9_Given(converted[k], tables[k].lineageGraph)

\* orders between events and users: three keys, users and events mapped to
\* dependencies other than those of orders.
C9_Witness ==
    /\ NodeNamesDistinct
    /\ \E k \in 1..Len(tables) :
           /\ tables[k].name = <<"orders">>
           /\ Len(tables[k].lineageGraph) = 3
           /\ Get(tables[k].lineageGraph, <<"users">>) = << >>
           /\ Get(tables[k].lineageGraph, <<"orders">>) # << >>
           /\ Get(tables[k].lineageGraph, <<"events">>)
                  # Get(tables[k].lineageGraph, <<"orders">>)

-----------------------------------------------------------------------------
(* C10: with throwOnMissingCatalogEntry true, one model whose database, schema *)
(* and name do not resolve to a catalog table makes attachTypesToModels fail   *)
(* with MissingCatalogEntryError; no model is returned, not even one that      *)
(* resolves.                                                                   *)

Resolves(model) ==
    Truthy(TableMatch(model, warehouseCatalog, caseSensitiveMatching).table)

FirstUnresolved ==
    models[CHOOSE i \in 1..Len(models) :
               /\ ~Resolves(models[i])
               /\ \A j \in 1..(i - 1) : Resolves(models[j])]

C10_FailsWholesale ==
    (throwOnMissingCatalogEntry /\ \E i \in 1..Len(models) : ~Resolves(models[i])) =>
        /\ outcome.state # "returned"
        /\ pc # "attach"
        /\ attached = << >>
        /\ pc = "done" =>
               /\ outcome.state = "thrown"
               /\ outcome.error.name = "MissingCatalogEntryError"
               /\ outcome.error = MissingModelError(FirstUnresolved)

\* The call failed on its second model after the first one had resolved.
C10_Witness ==
    /\ throwOnMissingCatalogEntry
    /\ pc = "done"
    /\ outcome.state = "thrown"
    /\ Len(models) = 2
    /\ Resolves(models[1])
    /\ ~Resolves(models[2])
    /\ idx = 1

-----------------------------------------------------------------------------
(* What a lookup in the catalog is expected to give *)

Matches(key, wanted, caseSensitive) ==
    IF caseSensitive THEN key = wanted ELSE toLowerCase(key) = toLowerCase(wanted)

\* The first key of a level that matches, in key order; Undefined without one.
FirstMatch(level, wanted, caseSensitive) ==
    IF \E k \in 1..Len(level) : Matches(level[k].k, wanted, caseSensitive)
    THEN level[CHOOSE k \in 1..Len(level) :
                   /\ Matches(level[k].k, wanted, caseSensitive)
                   /\ \A j \in 1..(k - 1) : ~Matches(level[j].k, wanted, caseSensitive)].k
    ELSE Undefined

\* One level down: the entries under the first matching key, none without one.
Below(level, wanted, caseSensitive) ==
    IF FirstMatch(level, wanted, caseSensitive) = Undefined THEN << >>
    ELSE Get(level, FirstMatch(level, wanted, caseSensitive))

ColumnsOf(model, caseSensitive) ==
    Below(Below(Below(warehouseCatalog, model.database, caseSensitive),
                model.schema, caseSensitive),
          model.name, caseSensitive)

\* The type the catalog holds for a column of a model, Undefined without one.
CatalogType(model, columnName, caseSensitive) ==
    Below(ColumnsOf(model, caseSensitive), columnName, caseSensitive)

WithCatalogTypes(model, caseSensitive) ==
    [model EXCEPT !.columns =
        [k \in 1..Len(model.columns) |->
            [model.columns[k] EXCEPT
                !.data_type = CatalogType(model, model.columns[k].name, caseSensitive)]]]

SomeColumnMissing ==
    \E i \in 1..Len(models) : \E c \in Range(models[i].columns) :
        CatalogType(models[i], c.name, caseSensitiveMatching) = Undefined

-----------------------------------------------------------------------------
(* C11: with throwOnMissingCatalogEntry false attachTypesToModels never fails  *)
(* and returns the input models in order, each column with its catalog type or *)
(* with no type; with the flag true a missing column makes it fail with        *)
(* MissingCatalogEntryError.                                                   *)

C11_FlagDecidesFailure ==
    /\ ~throwOnMissingCatalogEntry =>
           /\ outcome.state # "thrown"
           /\ attached = [i \in 1..Len(attached) |->
                             WithCatalogTypes(models[i], caseSensitiveMatching)]
           /\ pc = "done" =>
                  /\ outcome.state = "returned"
                  /\ outcome.value = [i \in 1..Len(models) |->
                                         WithCatalogTypes(models[i], caseSensitiveMatching)]
    /\ (throwOnMissingCatalogEntry /\ SomeColumnMissing /\ pc = "done") =>
           /\ outcome.state = "thrown"
           /\ outcome.error.name = "MissingCatalogEntryError"

\* orders was returned with amount typed and created, unknown to the catalog,
\* without type.
C11_Witness ==
    /\ ~throwOnMissingCatalogEntry
    /\ pc = "done"
    /\ outcome.state = "returned"
    /\ \E i \in 1..Len(models) :
           /\ models[i] = Orders
           /\ outcome.value[i].columns[1].data_type = <<"number">>
           /\ outcome.value[i].columns[2].data_type = Undefined

-----------------------------------------------------------------------------
(* C12: with caseSensitiveMatching false every level is resolved by the first  *)
(* key equal in lower case, so DB.Public.Users resolves in a catalog keyed     *)
(* db.public.users; with caseSensitiveMatching true a triple that equals no    *)
(* key path exactly does not resolve: the call fails, or the type is absent.   *)

\* The type under the keys equal to the names as they are.
ExactType(model, columnName) ==
    IF /\ Has(warehouseCatalog, model.database)
       /\ Has(Get(warehouseCatalog, model.database), model.schema)
       /\ Has(Get(Get(warehouseCatalog, model.database), model.schema), model.name)
       /\ Has(Get(Get(Get(warehouseCatalog, model.database), model.schema), model.name),
              columnName)
    THEN Get(Get(Get(Get(warehouseCatalog, model.database), model.schema), model.name),
             columnName)
    ELSE Undefined

C12_Insensitive(i) ==
    \A k \in 1..Len(models[i].columns) :
        outcome.value[i].columns[k].data_type =
            CatalogType(models[i], models[i].columns[k].name, FALSE)

C12_Sensitive(i) ==
    \A k \in 1..Len(models[i].columns) :
        outcome.value[i].columns[k].data_type =
            ExactType(models[i], models[i].columns[k].name)

C12_UpperCaseExample(i) ==
    (models[i] = UsersUpper /\ warehouseCatalog = CatalogLower) =>
        IF caseSensitiveMatching
        THEN /\ outcome.value[i].columns[1].data_type = Undefined
             /\ outcome.value[i].columns[2].data_type = Undefined
        ELSE /\ outcome.value[i].columns[1].data_type = <<"number">>
             /\ outcome.value[i].columns[2].data_type = <<"timestamp">>

C12_CaseInsensitiveMatching ==
    /\ (pc = "done" /\ outcome.state = "returned") =>
           \A i \in 1..Len(models) :
               /\ IF caseSensitiveMatching THEN C12_Sensitive(i) ELSE C12_Insensitive(i)
               /\ C12_UpperCaseExample(i)
    /\ (pc = "done" /\ caseSensitiveMatching /\ throwOnMissingCatalogEntry
            /\ \E i \in 1..Len(models) : \E c \in Range(models[i].columns) :
                   ExactType(models[i], c.name) = Undefined) =>
           outcome.state = "thrown"
    /\ (pc = "done" /\ ~caseSensitiveMatching /\ throwOnMissingCatalogEntry
            /\ \A i \in 1..Len(models) : \A c \in Range(models[i].columns) :
                   CatalogType(models[i], c.name, FALSE) # Undefined) =>
           outcome.state = "returned"

\* DB.Public.Users was resolved in the catalog keyed db.public.users, with
\* failure on a missing entry switched on.
C12_Witness ==
    /\ ~caseSensitiveMatching
    /\ throwOnMissingCatalogEntry
    /\ warehouseCatalog = CatalogLower
    /\ pc = "done"
    /\ outcome.state = "returned"
    /\ \E i \in 1..Len(models) :
           /\ models[i] = UsersUpper
           /\ outcome.value[i].columns[1].data_type = <<"number">>

-----------------------------------------------------------------------------
(* C13: a column that attachTypesToModels gave a catalog type never makes      *)
(* convertDimension, and so convertTable, fail with the 'Could not recognise   *)
(* type' MissingCatalogEntryError.                                             *)

Unrecognised(r) == ~r.ok /\ r.error.name = "MissingCatalogEntryError"

ValidOverride(column) ==
    ~Truthy(column.dimension.type) \/ column.dimension.type \in DimensionType

C13_Column(model, column) ==
    Truthy(column.data_type) =>
        ~Unrecognised(convertDimension(adapterType, model, TableLabel(model), column,
                                       Undefined))

C13_Table(model) ==
    (\A c \in Range(model.columns) : Truthy(c.data_type)) =>
        ~Unrecognised(convertTable(adapterType, model, << >>))

\* The claim as stated.
C13_RoundTrip ==
    \A i \in 1..Len(attached) :
        /\ \A c \in Range(attached[i].columns) : C13_Column(attached[i], c)
        /\ C13_Table(attached[i])

\* As amended: for the columns whose declared type, if any, is a DimensionType.
C13_RoundTripValidOverride ==
    \A i \in 1..Len(attached) :
        /\ \A c \in Range(attached[i].columns) :
               ValidOverride(c) => C13_Column(attached[i], c)
        /\ (\A c \in Range(attached[i].columns) : ValidOverride(c)) =>
               C13_Table(attached[i])

\* users came back with every column typed by the catalog.
C13_Witness ==
    /\ pc = "done"
    /\ outcome.state = "returned"
    /\ \E i \in 1..Len(models) :
           /\ models[i] = Users
           /\ \A c \in Range(outcome.value[i].columns) :
                  Truthy(c.data_type) /\ ValidOverride(c)
           /\ convertTable(adapterType, outcome.value[i], << >>).ok

-----------------------------------------------------------------------------
(* C14: every ExploreError that convertExplores returns, of the table phase or *)
(* of the join phase, carries the name, the label and the tags of its model    *)
(* and at least one error entry of a type and a message.                       *)

HasErrorEntries(record) ==
    /\ Len(record.errors) > 0
    /\ \A k \in 1..Len(record.errors) :
           /\ DOMAIN record.errors[k] = {"type", "message"}
           /\ record.errors[k].message # Undefined

CarriesModel(record) ==
    /\ "tags" \in DOMAIN record
    /\ \E i \in 1..Len(models) :
           /\ record.name = models[i].name
           /\ record.label = TableLabel(models[i])
           /\ record.tags = models[i].tags

\* The claim as stated.
C14_ExploreErrorFields ==
    Finished =>
        \A k \in 1..Len(outcome.value) :
            IsExploreError(outcome.value[k]) =>
                HasErrorEntries(outcome.value[k]) /\ CarriesModel(outcome.value[k])

-----------------------------------------------------------------------------
(* C15: when expression metrics reference each other in a cycle, evaluating    *)
(* modelCanUseMetric for a metric of the cycle does not return a result.       *)

References ==
    UNION {{<<metrics[k].name, r>> : r \in Range(ReferencedMetrics(metrics[k]))} :
              k \in {j \in 1..Len(metrics) :
                        metrics[j].calculation_method = <<"expression">>}}

\* reach is the transitive closure of References.
OnCycle(name, reach) == <<name, name>> \in reach

\* The metrics of the cycles through name.
CycleOf(name, reach) ==
    {n \in {p[2] : p \in reach} : <<name, n>> \in reach /\ <<n, name>> \in reach}

\* Every metric of the cycle references metrics of the cycle only, and none is
\* declared on the model.
ClosedCycleAwayFrom(name, modelName, reach) ==
    /\ OnCycle(name, reach)
    /\ \A p \in References :
           p[1] \in CycleOf(name, reach) => p[2] \in CycleOf(name, reach)
    /\ \A k \in 1..Len(metrics) :
           metrics[k].name \in CycleOf(name, reach) => ModelRef(metrics[k]) # modelName

NoResult(r) == ~r.ok /\ r.error.name = "RangeError"

-----------------------------------------------------------------------------
(* C16: convertDimension takes as type the meta.dimension.type override, else  *)
(* the data_type attached from the catalog, else STRING; a type that is no     *)
(* DimensionType makes it fail with MissingCatalogEntryError, any other gives  *)
(* a Dimension of that type.                                                   *)

ExpectedType(column) ==
    IF column.dimension.type # Undefined /\ column.dimension.type # Null
    THEN column.dimension.type
    ELSE IF column.data_type # Undefined /\ column.data_type # Null
    THEN column.data_type
    ELSE <<"string">>

C16_Given(column, r) ==
    IF ExpectedType(column) \in DimensionType
    THEN /\ r.ok
         /\ r.value.fieldType = "dimension"
         /\ r.value.type = ExpectedType(column)
    ELSE /\ ~r.ok
         /\ r.error.name = "MissingCatalogEntryError"

C16_Column(model, column) ==
    C16_Given(column,
              convertDimension(adapterType, model, TableLabel(model), column, Undefined))

\* dimension is the entry of the column in the Table of its model.
C16_InTable(column, dimension) ==
    dimension.timeInterval = Undefined => dimension.type = ExpectedType(column)

C16_TypeResolution ==
    /\ \A i \in 1..Consumed :
           \A c \in Range(models[i].columns) : C16_Column(models[i], c)
    /\ LET converted == ConvertedModels
       IN  \A k \in 1..Len(tables) :
               \A c \in Range(converted[k].columns) :
                   /\ Has(tables[k].dimensions, c.name)
                   /\ C16_InTable(c, Get(tables[k].dimensions, c.name))

\* The second orders model failed on the type of amount, and users was
\* converted with id as a string for want of any type.
C16_Witness ==
    /\ \E k \in 1..Len(exploreErrors) :
           /\ exploreErrors[k].name = <<"orders">>
           /\ exploreErrors[k].errors[1].type = "MissingCatalogEntryError"
    /\ \E k \in 1..Len(tables) :
           /\ tables[k].name = <<"users">>
           /\ Get(tables[k].dimensions, <<"id">>).type = <<"string">>

-----------------------------------------------------------------------------
(* C17: for a TIMESTAMP dimension the timezone step of convertDimension leaves *)
(* the SQL as it is, whatever the warehouse: the SQL of the dimension is the   *)
(* override SQL or the default reference to the column.                        *)

SqlBefore(column) ==
    IF column.dimension.sql # Undefined /\ column.dimension.sql # Null
    THEN column.dimension.sql
    ELSE <<"$", "{", "TABLE", "}", ".">> \o column.name

IsTimestamp(column) == ExpectedType(column) = <<"timestamp">>

C17_Unchanged(column, r) == r.ok /\ r.value.sql = SqlBefore(column)

C17_Wrapped(column, r) ==
    /\ r.ok
    /\ r.value.sql = <<"TO_TIMESTAMP_NTZ(CONVERT_TIMEZONE('UTC', ">>
                         \o SqlBefore(column) \o <<"))">>

C17_On(adapter, model, column) ==
    C17_Unchanged(column,
                  convertDimension(adapter, model, TableLabel(model), column, Undefined))

C17_OnSnowflake(model, column) ==
    C17_Wrapped(column,
                convertDimension("snowflake", model, TableLabel(model), column, Undefined))

\* The claim as stated.
C17_TimezonePassThrough ==
    \A i \in 1..Consumed : \A c \in Range(models[i].columns) :
        IsTimestamp(c) => \A adapter \in SupportedDbtAdapter : C17_On(adapter, models[i], c)

\* As amended: every warehouse but Snowflake, which wraps the SQL.
C17_TimezonePassThroughButSnowflake ==
    /\ \A i \in 1..Consumed : \A c \in Range(models[i].columns) :
           IsTimestamp(c) =>
               /\ \A adapter \in SupportedDbtAdapter \ {"snowflake"} :
                      C17_On(adapter, models[i], c)
               /\ C17_OnSnowflake(models[i], c)
    /\ LET converted == ConvertedModels
       IN  \A k \in 1..Len(tables) : \A c \in Range(converted[k].columns) :
               IsTimestamp(c) =>
                   Get(tables[k].dimensions, c.name).sql =
                       IF adapterType = "snowflake"
                       THEN <<"TO_TIMESTAMP_NTZ(CONVERT_TIMEZONE('UTC', ">>
                                \o SqlBefore(c) \o <<"))">>
                       ELSE SqlBefore(c)

\* users.created, a timestamp, converted for Snowflake.
C17_Witness ==
    /\ adapterType = "snowflake"
    /\ \E k \in 1..Len(tables) :
           /\ tables[k].name = <<"users">>
           /\ Get(tables[k].dimensions, <<"created">>).type = <<"timestamp">>
           /\ Get(tables[k].dimensions, <<"created">>).sql
                  # <<"$", "{", "TABLE", "}", ".", "created">>

-----------------------------------------------------------------------------
(* C18: a dbt metric that is no expression, of a known calculation method and  *)
(* without filters, is converted to a Metric of the parsed type whose SQL is   *)
(* ${TABLE}.<expression> for an expression that is a bare identifier, the      *)
(* expression as it is for any other expression, and ${TABLE}.<name> without   *)
(* expression.                                                                 *)

KnownMethods ==
    {<<"average">>, <<"count">>, <<"count_distinct">>, <<"sum">>, <<"min">>, <<"max">>,
     <<"number">>}

IsPlainAggregation(metric) ==
    /\ metric.calculation_method \in KnownMethods
    /\ metric.filters = << >>

\* Tokens that are no letters, digits or underscores.
OtherTokens == {" ", "*", "-", "+", "/", ".", "(", ")", "$", "{", "}"}

IsBareIdentifier(text) ==
    text # << >> /\ \A k \in 1..Len(text) : text[k] \notin OtherTokens

ColumnReference(name) == <<"$", "{", "TABLE", "}", ".">> \o name

ExpectedAggregationSql(metric) ==
    IF metric.expression = Undefined \/ metric.expression = Null
    THEN ColumnReference(metric.name)
    ELSE IF IsBareIdentifier(metric.expression)
    THEN ColumnReference(metric.expression)
    ELSE metric.expression

C18_Given(metric, r) ==
    /\ r.ok
    /\ r.value.fieldType = "metric"
    /\ r.value.type = parseMetricType(metric.calculation_method).value
    /\ r.value.type \in MetricType
    /\ r.value.sql = ExpectedAggregationSql(metric)

C18_AggregationMetricSql ==
    /\ \A k \in 1..Len(metrics) :
           IsPlainAggregation(metrics[k]) =>
               \A i \in 1..Consumed :
                   C18_Given(metrics[k],
                             convertDbtMetricToLightdashMetric(
                                 metrics[k], models[i].name, TableLabel(models[i])))
    /\ LET converted == ConvertedModels
       IN  \A t \in 1..Len(tables) : \A k \in 1..Len(metrics) :
               (/\ IsPlainAggregation(metrics[k])
                /\ Has(tables[t].metrics, metrics[k].name)
                /\ Get(tables[t].metrics, metrics[k].name).isAutoGenerated = FALSE
                /\ \A c \in Range(converted[t].columns) :
                       ~Has(c.metrics, metrics[k].name)) =>
                   Get(tables[t].metrics, metrics[k].name).sql
                       = ExpectedAggregationSql(metrics[k])

\* orders with the sales metrics: cost keeps its expression, revenue_net,
\* without expression, refers to a column of its own name.
C18_Witness ==
    /\ metrics = SalesMetrics
    /\ \E t \in 1..Len(tables) :
           /\ tables[t].name = <<"orders">>
           /\ Get(tables[t].metrics, <<"cost">>).sql = <<"amount", " ", "*", " ", "1">>
           /\ Get(tables[t].metrics, <<"revenue", "_", "net">>).sql
                  = <<"$", "{", "TABLE", "}", ".", "revenue", "_", "net">>

-----------------------------------------------------------------------------
(* C19: an expression dbt metric is converted to a Metric of type NUMBER whose *)
(* SQL is its expression with every occurrence of every referenced metric name *)
(* wrapped once as ${name}, whatever the order of the names and however they   *)
(* overlap; without expression text the conversion fails with ParseError.      *)

\* The referenced names that the text starts with.
NamesAt(text, names) ==
    {n \in names : n # << >> /\ Len(n) <= Len(text) /\ SubSeq(text, 1, Len(n)) = n}

\* The longest of a non-empty set of names found at one place.
Longest(found) == CHOOSE n \in found : \A other \in found : Len(other) <= Len(n)

\* Every occurrence of a name wrapped once, the text read from left to right
\* and the longest name taken where several start.
RECURSIVE WrappedOnce(_, _)
WrappedOnce(text, names) ==
    IF text = << >> THEN << >>
    ELSE IF NamesAt(text, names) = {} THEN <<text[1]>> \o WrappedOnce(Tail(text), names)
    ELSE <<"$", "{">> \o Longest(NamesAt(text, names)) \o <<"}">>
             \o WrappedOnce(SubSeq(text, Len(Longest(NamesAt(text, names))) + 1, Len(text)),
                            names)

HasExpressionText(metric) == metric.expression # Undefined /\ metric.expression # Null

C19_Given(metric, r) ==
    IF HasExpressionText(metric)
    THEN /\ r.ok
         /\ r.value.type = <<"NUMBER">>
         /\ metric.filters = << >> =>
                r.value.sql = WrappedOnce(metric.expression,
                                          Range(ReferencedMetrics(metric)))
    ELSE ~r.ok /\ r.error.name = "ParseError"

-----------------------------------------------------------------------------
(* C20: convertTable on a compiled model whose relation name is null or empty  *)
(* fails with the error 'Model has no table relation', and convertExplores     *)
(* reports that as the ExploreError of this model alone.                       *)

NoRelation == [name |-> "Error", message |-> <<"Model has no table relation">>]

LacksRelation(model) ==
    model.compiled /\ (model.relation_name = Null \/ model.relation_name = Undefined)

IsNoRelationFailure(r) == ~r.ok /\ r.error = NoRelation

C20_Reported(i, r) ==
    /\ IsNoRelationFailure(r)
    /\ ErrorOf(i).name = models[i].name
    /\ ErrorOf(i).errors = <<[type |-> NoRelation.name, message |-> NoRelation.message]>>
    /\ \A k \in 1..Len(tables) : tables[k].sqlTable # Null /\ tables[k].sqlTable # Undefined

C20_Given(i, filtered) ==
    filtered.ok => C20_Reported(i, convertTable(adapterType, models[i], filtered.value))

\* The model would convert if it had this relation name.
C20_ConvertsWithRelation(i, filtered) ==
    /\ filtered.ok
    /\ convertTable(adapterType, [models[i] EXCEPT !.relation_name = <<"relation">>],
                    filtered.value).ok

C20_GivenConverts(i, filtered) ==
    C20_ConvertsWithRelation(i, filtered) =>
        C20_Reported(i, convertTable(adapterType, models[i], filtered.value))

\* The claim as stated.
C20_NoRelation ==
    /\ Len(exploreErrors) = Len(FailedModels)
    /\ \A i \in 1..Consumed :
           LacksRelation(models[i]) => C20_Given(i, TableMetrics(models[i], metrics))

\* As amended: for the models that nothing else keeps from converting.
C20_NoRelationOtherwiseSound ==
    /\ Len(exploreErrors) = Len(FailedModels)
    /\ \A i \in 1..Consumed :
           LacksRelation(models[i]) =>
               /\ ConvertFails(models[i])
               /\ C20_GivenConverts(i, TableMetrics(models[i], metrics))

\* The users model without relation was reported, and another model converted.
C20_Witness ==
    /\ \E k \in 1..Len(exploreErrors) :
           /\ exploreErrors[k].name = <<"users">>
           /\ exploreErrors[k].errors[1].message = <<"Model has no table relation">>
    /\ Len(tables) = 1

-----------------------------------------------------------------------------
(* C21: when the names of the input models are distinct, convertExplores       *)
(* returns one record per model: the ExploreError of the table phase for a     *)
(* model that failed there, which never reaches compileExplore, and an Explore *)
(* or an ExploreError of the join phase for a model whose table was converted; *)
(* the output is as long as the input.                                         *)

ModelNamesDistinct ==
    \A i, j \in 1..Len(models) : models[i].name = models[j].name => i = j

RecordsNamed(name) == {k \in 1..Len(outcome.value) : outcome.value[k].name = name}

\* converted holds the models whose table conversion succeeded.
C21_Record(model, record, converted) ==
    IF model \in Range(converted)
    THEN IsExplore(record) \/ IsJoinError(record)
    ELSE IsTableError(record)

C21_Returned(converted) ==
    /\ outcome.state = "returned"
    /\ Len(outcome.value) = Len(models)
    /\ \A i \in 1..Len(models) :
           /\ Cardinality(RecordsNamed(models[i].name)) = 1
           /\ \A k \in RecordsNamed(models[i].name) :
                  C21_Record(models[i], outcome.value[k], converted)

\* The map callback has run on the first idx valid models, once each.
C21_Mapped(converted) ==
    /\ ValidModelsNow = converted
    /\ pc = "explores" =>
           /\ Len(explores) = idx
           /\ \A k \in 1..idx : explores[k].name = converted[k].name

C21_OneRecordPerModel ==
    ModelNamesDistinct =>
        LET converted == ConvertedModels
        IN  /\ pc \in {"explores", "done"} => C21_Mapped(converted)
            /\ pc = "done" => C21_Returned(converted)

\* Two models of distinct names: one gave an ExploreError of the join phase,
\* the other one of the table phase.
C21_Witness ==
    /\ Finished
    /\ ModelNamesDistinct
    /\ Len(models) = 2
    /\ IsJoinError(outcome.value[1])
    /\ IsTableError(outcome.value[2])

-----------------------------------------------------------------------------
(* C22: every entry of the dimension map of a Table is keyed by the name of    *)
(* its dimension: for every key k with dimension d, k = d.name, for a base     *)
(* dimension and for a time-interval expansion alike.                          *)

KeyedByName(entry) == entry.k = entry.v.name

\* The claim as stated.
C22_KeyedByName ==
    \A k \in 1..Len(tables) : \A e \in Range(tables[k].dimensions) : KeyedByName(e)

-----------------------------------------------------------------------------
(* C23: modelCanUseMetric ends and returns a boolean for every metric set      *)
(* whose expression metrics do not reference each other in a cycle, also when  *)
(* a referenced name is no metric of the set: then the referencing expression  *)
(* metric is not usable, unless its own first ref is the model.                *)

\* reach is the transitive closure of References.
Acyclic(reach) == \A p \in reach : p[1] # p[2]

ReferencesUnknown(metric) ==
    /\ IsExpression(metric)
    /\ \E r \in Range(ReferencedMetrics(metric)) : FindMetric(r, metrics) = << >>

C23_Given(metric, modelName, r) ==
    /\ r.ok
    /\ r.value \in BOOLEAN
    /\ (ReferencesUnknown(metric) /\ ModelRef(metric) # modelName) => r.value = FALSE
    /\ ModelRef(metric) = modelName => r.value = TRUE

\* The filter of lines 838-840 returns the metrics for which the call gave true.
C23_Filter ==
    /\ outcome.state # "thrown"
    /\ \A k \in 1..Len(keptMetrics) :
           modelCanUseMetric(keptMetrics[k].name, models[1].name, metrics) = Ok(TRUE)
    /\ pc = "done" =>
           \A k \in 1..Len(metrics) :
               modelCanUseMetric(metrics[k].name, models[1].name, metrics) = Ok(TRUE)
                   => metrics[k] \in Range(outcome.value)

C23_Terminates ==
    Acyclic(TransitiveClosure(References)) =>
        /\ \A k \in 1..Len(metrics) :
               C23_Given(metrics[k], models[1].name,
                         modelCanUseMetric(metrics[k].name, models[1].name, metrics))
        /\ C23_Filter

\* The filter returned for a set without cycle in which one expression metric
\* references another and one references a name that is no metric.
C23_Witness ==
    /\ pc = "done"
    /\ outcome.state = "returned"
    /\ Acyclic(TransitiveClosure(References))
    /\ \E k \in 1..Len(metrics) : ReferencesUnknown(metrics[k])
    /\ \E j, k \in 1..Len(metrics) :
           /\ IsExpression(metrics[j])
           /\ IsExpression(metrics[k])
           /\ metrics[k].name \in Range(ReferencedMetrics(metrics[j]))
           /\ ModelRef(metrics[j]) # models[1].name

-----------------------------------------------------------------------------
(* C24: an expression metric whose list of referenced metrics is empty or      *)
(* absent is usable by every model, whatever its first ref, and so is in the   *)
(* metric map of the Table of every model that convertExplores converts.       *)

NoReferences(metric) == IsExpression(metric) /\ metric.metrics = << >>

\* The metric is in the map as converted, unless an embedded metric of the
\* model has its name and takes its place.
C24_InTable(model, table, metric) ==
    /\ Has(table.metrics, metric.name)
    /\ (\A c \in Range(model.columns) : ~Has(c.metrics, metric.name)) =>
           Get(table.metrics, metric.name) =
               convertDbtMetricToLightdashMetric(metric, model.name,
                                                 TableLabel(model)).value

C24_Given(metric, converted) ==
    /\ \A i \in 1..Len(models) :
           modelCanUseMetric(metric.name, models[i].name, metrics) = Ok(TRUE)
    /\ \A t \in 1..Len(tables) : C24_InTable(converted[t], tables[t], metric)

C24_UsableByEveryModel ==
    LET converted == ConvertedModels
    IN  \A k \in 1..Len(metrics) :
            NoReferences(metrics[k]) => C24_Given(metrics[k], converted)

\* free, an expression without references declared on events, and flat, one
\* declared on no model, are in the Tables of two other models.
C24_Witness ==
    /\ metrics = LooseMetrics
    /\ Len(tables) = 2
    /\ \A t \in 1..Len(tables) :
           /\ tables[t].name # <<"events">>
           /\ Has(tables[t].metrics, <<"free">>)
           /\ Has(tables[t].metrics, <<"flat">>)
           /\ Get(tables[t].metrics, <<"free">>).type = <<"NUMBER">>

-----------------------------------------------------------------------------
(* C25: when the first groupFieldIds has no duplicates, no call of groupAdd,   *)
(* groupChange or groupRemove and no run of the effect gives it one; groupAdd  *)
(* appends the first dimension id that is not selected yet, and leaves the     *)
(* list as it is when every dimension is selected.                             *)

AllSelected == \A id \in Range(dimensionIds) : id \in Range(groupFieldIds)

FirstUnselected ==
    dimensionIds[CHOOSE k \in 1..Len(dimensionIds) :
                     /\ dimensionIds[k] \notin Range(groupFieldIds)
                     /\ \A j \in 1..(k - 1) : dimensionIds[j] \in Range(groupFieldIds)]

C25_AfterAdd ==
    IF AllSelected THEN groupFieldIds ELSE Append(groupFieldIds, FirstUnselected)

\* A list without duplicates stays one at every step, and a groupAdd on it
\* does what the claim says.
C25_NoDuplicateGroups ==
    [][Distinct(groupFieldIds) =>
           /\ Distinct(groupFieldIds')
           /\ GroupAdd => groupFieldIds' = C25_AfterAdd]_vars

\* Every dimension is selected after MaxCalls calls of the handlers, and the
\* effect has run.
C25_Witness ==
    /\ groupFieldIds = dimensionIds
    /\ Len(groupFieldIds) = MaxDimensions
    /\ calls = MaxCalls
    /\ ~isLoading
    /\ ~effectDue

-----------------------------------------------------------------------------
(* C26: once explore and results are loaded and there is a dimension, the      *)
(* effect brings groupFieldIds to a list that is not empty and holds dimension *)
(* ids only, and then updates it no more, whatever the first list was and      *)
(* also after a groupRemove that empties it.                                   *)

Ready == ~isLoading /\ dimensionIds # << >>

Settled ==
    /\ groupFieldIds # << >>
    /\ \A k \in 1..Len(groupFieldIds) : groupFieldIds[k] \in Range(dimensionIds)

AtFixedPoint == Settled /\ ~effectDue

C26_SyncReachesFixedPoint ==
    /\ Ready ~> AtFixedPoint
    /\ [](Ready /\ Settled =>
              ~DimensionSync(isLoading, dimensionIds, groupFieldIds).set)

\* The effect has settled the list after the handlers were called.
C26_Witness ==
    /\ Ready
    /\ AtFixedPoint
    /\ calls = MaxCalls
    /\ groupFieldIds = <<dimensionIds[1]>>

====
